---- MODULE Spec2Model ----
(***************************************************************************)
(* A model of the electron-modular dependency-injection runtime:           *)
(*   - the Container class (module registry, provider maps, the global     *)
(*     singleton cache `instances`, the per-module `resolutionCache`) and   *)
(*     its recursive resolve algorithm;                                     *)
(*   - the lazy activation gate (registerLazyModule) with the registration *)
(*     pipeline it drives (initializeModule, instantiateModule,            *)
(*     initializeIpcHandlers).                                              *)
(*                                                                         *)
(* Spec      the Container API driven one call after the other.            *)
(* ImportSpec  the same API on a module with two imports.                  *)
(* LazySpec  one lazy module behind its trigger: handler invocations       *)
(*           interleave with the steps (await points) of the attempt.      *)
(* BootSpec  one bootstrapModules call over a list of modules, step by     *)
(*           step (await points), with asynchronous onInit hooks.          *)
(* TokensSpec  getDependencyTokens and its cache.                          *)
(* WindowSpec  the listeners attached to one BrowserWindow.                *)
(* FlightSpec  resolve calls that overlap at their await points.           *)
(* RaceSpec  initializeModule calls that overlap, over import graphs with  *)
(*           and without cycles; RaceFairSpec drains the microtask queue.  *)
(* StackSpec  resolve over provider graphs with cycles, aliases, value     *)
(*           providers and a chain of imports, under a bounded call stack; *)
(*           StackFairSpec drains the microtask queue.                     *)
(***************************************************************************)
EXTENDS Integers, Sequences, FiniteSets, TLC

VARIABLES
    modules,          \* Container.modules: module -> [providers, exports]
    moduleMetadata,   \* Container.moduleMetadata: module -> descriptor
    instances,        \* Container.instances: token -> value (global singleton cache)
    resolutionCache,  \* Container.resolutionCache: cache key -> value
    calls,            \* ghost: provider id -> completed constructor/factory invocations
    given,            \* ghost: the number of objects handed to registerInstance so far
    lazy,             \* the lazy gate: closure state of registerLazyModule and its callers
    boot,             \* one bootstrapModules call: its list, its position, ghost log
    dependencyTokens, \* getDependencyTokens: class metadata, dependencyTokensCache, results
    window,           \* one BrowserWindow: its listeners and its windowListeners entry
    flight,           \* resolve calls in flight: the frames suspended at an await
    race,             \* initializeModule calls in flight and the microtask queue
    stack             \* one resolve call at a time: the frames of its nested calls

vars ==
    <<modules, moduleMetadata, instances, resolutionCache, calls, given, lazy, boot,
      dependencyTokens, window, flight, race, stack>>

\* The variables of the specifications that do not touch the container
extra == <<dependencyTokens, window, flight, race, stack>>

----------------------------------------------------------------------------
(* The universe of module classes and tokens.                              *)

\* Module classes.  "Lazy" is the lazy module of LazySpec; the last five are
\* the further classes handed to bootstrapModules in BootSpec.
Modules ==
    {"Shared", "Consumer", "Lazy", "Other",
     "Lazy2", "LazyExports", "LazyImporter", "Host", "Undecorated"}
ContainerModules == {"Shared", "Consumer"}

\* Provider tokens.  X is a class; sX is the string "X"; P a class registered
\* with useClass; A1, A2 strings aliasing X; Ipc, Ipc2 IPC handler classes;
\* win the hash of a window manager.
ProviderTokens == {"X", "sX", "P", "A1", "A2", "Ipc", "Ipc2", "win"}

\* A module class can be used as a token too (resolve(M, M)).
Tokens == ProviderTokens \cup Modules

\* Constructor.name of a module class.
ModuleName(m) == m

\* token.name for a class, String(token) for a string: the class X and the
\* string "X" have the same key text.
TokenKey(t) == IF t = "sX" THEN "X" ELSE t

\* String(token), as passed to ProviderNotFoundError: the string itself for a
\* string token, the class source text for a class.
TokenString(t) ==
    CASE t = "sX" -> <<"string", "X">>
      [] t \in {"A1", "A2", "win"} -> <<"string", t>>
      [] OTHER -> <<"class source", t>>

\* The shape of the provider each token is registered with.
Shape(t) ==
    CASE t \in {"X", "Ipc"} -> "ctor"
      [] t = "sX" -> "factory"
      [] t = "P" -> "useClass"
      [] t \in {"A1", "A2"} -> "existing"
      [] t = "win" -> "raw"
      [] OTHER -> "ctor"

\* provider.inject, or getDependencyTokens(class) for a class.
Inject(t) == IF t = "P" THEN <<"X">> ELSE <<>>

\* provider.useExisting of the alias providers.
UseExisting(t) == "X"

\* The provider value addProvider stores: the class itself for a direct class,
\* the provider object otherwise.  `id` tells whose constructor or factory it
\* is: a direct class is the same constructor in every module, a provider
\* object (and its factory) belongs to the module that declares it.
ProviderOf(m, t) ==
    [shape |-> Shape(t), provide |-> t, inject |-> Inject(t),
     useExisting |-> UseExisting(t),
     id |-> IF Shape(t) = "ctor" THEN <<"class", t>> ELSE <<m, t>>]

\* What the ghost `calls` counts: constructors, factories, and the onInit of
\* the IPC handler.
ProviderIds ==
    {<<"class", t>> : t \in Tokens} \cup (Modules \X ProviderTokens)
        \cup {<<"onInit", "Ipc">>, <<"onInit", "Ipc2">>}

\* The tokens each module's descriptor may register.
MayProvide(m) ==
    CASE m = "Shared" -> {"X", "sX", "P", "A1", "A2"}
      [] m = "Consumer" -> {"sX"}
      [] OTHER -> {}

\* The exports lists addModule is called with.
ExportChoices(m) ==
    CASE m = "Shared" -> {{"X", "A1"}}
      [] OTHER -> {{}}

\* The imports lists setModuleMetadata is called with.
ImportChoices(m) ==
    CASE m = "Consumer" -> {<<"Shared">>}
      [] OTHER -> {}

----------------------------------------------------------------------------
(* Values.                                                                 *)

\* JavaScript undefined.
Undefined == [kind |-> "undefined", by |-> <<"", "">>, n |-> 0, args |-> <<>>]

\* The n-th object made by constructor/factory `id` from arguments `args`.
Obj(id, n, args) == [kind |-> "object", by |-> id, n |-> n, args |-> args]

NoErr == [name |-> "", token |-> <<>>, module |-> ""]
ProviderNotFoundError(t, m) ==
    [name |-> "ProviderNotFoundError", token |-> t, module |-> m]
ModuleNotRegisteredError(m) ==
    [name |-> "ModuleNotRegisteredError", token |-> <<>>, module |-> m]

\* Map.set
Put(f, k, v) == [x \in (DOMAIN f) \cup {k} |-> IF x = k THEN v ELSE f[x]]

EmptyMap == [x \in {} |-> Undefined]

\* The container as one value, for the recursive resolution operators.
Container ==
    [modules |-> modules, moduleMetadata |-> moduleMetadata,
     instances |-> instances, resolutionCache |-> resolutionCache,
     calls |-> calls]

\* The outcome of an asynchronous call: the container it leaves, and either
\* the value it fulfils with or the error it rejects with.
R(c, out, err) == [c |-> c, out |-> out, err |-> err]


----------------------------------------------------------------------------
(* Container: lookups.                                                     *)

\* getCacheKey: `${moduleClass.name}:${tokenKey}`.  A class name holds no
\* colon, so the text is the pair (module name, token key).
GetCacheKey(m, t) == <<ModuleName(m), TokenKey(t)>>

HasProvider(c, m, t) ==
    /\ m \in DOMAIN c.modules
    /\ t \in DOMAIN c.modules[m].providers

\* getProvider: undefined for an unknown module or an unknown token.
GetProvider(c, m, t) == c.modules[m].providers[t]

\* hasModule
HasModule(c, m) == m \in DOMAIN c.modules

\* getModuleExports
GetModuleExports(c, m) ==
    IF m \in DOMAIN c.modules THEN c.modules[m].exports ELSE {}

\* getModuleMetadata(m)?.imports, an absent list read as the empty list
Imports(c, m) ==
    IF m \in DOMAIN c.moduleMetadata THEN c.moduleMetadata[m].imports ELSE <<>>

\* the `exportedProviders.has(token)` and `exportedProvider !== undefined`
\* tests of resolveFromImports
ImportOffers(c, imp, t) ==
    /\ t \in GetModuleExports(c, imp)
    /\ HasProvider(c, imp, t)

\* this.instances.set(token, instance), counting the invocation of `id`
Construct(c, t, id, args) ==
    LET n == c.calls[id] + 1
        obj == Obj(id, n, args)
    IN  R([c EXCEPT !.calls[id] = n, !.instances = Put(@, t, obj)], obj, NoErr)

\* this.resolutionCache.set(cacheKey, value) when value !== undefined
CacheDefined(r, key) ==
    IF r.err = NoErr /\ r.out # Undefined
    THEN [r EXCEPT !.c.resolutionCache = Put(@, key, r.out)]
    ELSE r

----------------------------------------------------------------------------
(* Container: resolve.  One call runs to completion (callers of Spec issue  *)
(* one call after the other); no provider of the universe has more than one *)
(* dependency, so Promise.all never has two resolutions in flight.          *)

RECURSIVE Resolve(_, _, _)
RECURSIVE ResolveFromImportsFrom(_, _, _, _)
RECURSIVE ResolveDependenciesFrom(_, _, _, _, _)
RECURSIVE InstantiateProvider(_, _, _, _)

\* resolveDependencies: resolve(moduleClass, dep) for each dep, in order;
\* Promise.all rejects with the first rejection.
ResolveDependenciesFrom(c, m, deps, i, acc) ==
    IF i > Len(deps) THEN R(c, acc, NoErr)
    ELSE LET r == Resolve(c, m, deps[i])
         IN  IF r.err # NoErr THEN r
             ELSE ResolveDependenciesFrom(r.c, m, deps, i + 1, Append(acc, r.out))

ResolveDependencies(c, m, deps) == ResolveDependenciesFrom(c, m, deps, 1, <<>>)

\* instantiateFactoryProvider / instantiateClassProvider /
\* instantiateClassConstructor: resolve the dependencies against moduleClass,
\* call the factory or constructor, store the result in the singleton cache.
InstantiateWithDependencies(c, m, t, provider) ==
    LET d == ResolveDependencies(c, m, provider.inject)
    IN  IF d.err # NoErr THEN d
        ELSE Construct(d.c, t, provider.id, d.out)

\* A faulty alias branch: constructs the aliased class anew instead of
\* resolving it.
InstantiateExistingAnew(c, m, t, provider) ==
    Construct(c, t, <<"class", provider.useExisting>>, <<>>)

\* the useExisting branch of instantiateProvider
InstantiateExisting(c, m, t, provider) ==
    LET r == Resolve(c, m, provider.useExisting)
    IN  IF r.err = NoErr /\ r.out # Undefined
        THEN [r EXCEPT !.c.instances = Put(@, t, r.out)]
        ELSE r

\* the last line of instantiateProvider: any other stored value (the window
\* metadata object registerWindows stores) is returned as it is
InstantiateRaw(c, m, t, provider) == R(c, Obj(<<"stored", t>>, 0, <<>>), NoErr)

InstantiateProvider(c, m, t, provider) ==
    CASE provider.shape \in {"factory", "useClass", "ctor"} ->
            InstantiateWithDependencies(c, m, t, provider)
      [] provider.shape = "existing" -> InstantiateExisting(c, m, t, provider)
      [] OTHER -> InstantiateRaw(c, m, t, provider)

\* resolveFromImports: the first import that exports the token and has a
\* provider for it decides.
ResolveFromImportsFrom(c, m, t, i) ==
    LET imports == Imports(c, m)
    IN  IF i > Len(imports) THEN R(c, Undefined, NoErr)
        ELSE IF ImportOffers(c, imports[i], t) THEN Resolve(c, imports[i], t)
        ELSE ResolveFromImportsFrom(c, m, t, i + 1)

\* A faulty resolveFromImports whose loop does not return at the first
\* match: the last import that offers the token decides.
ResolveFromLastImport(c, m, t) ==
    LET imports == Imports(c, m)
        offering == {i \in DOMAIN imports : ImportOffers(c, imports[i], t)}
    IN  IF offering = {} THEN R(c, Undefined, NoErr)
        ELSE Resolve(c, imports[CHOOSE i \in offering : \A j \in offering : j <= i], t)

ResolveFromImports(c, m, t) == ResolveFromImportsFrom(c, m, t, 1)

\* A faulty `if (!provider)` branch: the throw is missing.
ResolveWithoutThrow(c, m, t) ==
    LET r == ResolveFromImports(c, m, t)
    IN  IF r.err = NoErr /\ r.out # Undefined
        THEN CacheDefined(r, GetCacheKey(m, t))
        ELSE r

\* A faulty `if (!provider)` branch: the miss is stored in the resolution
\* cache before the error is thrown.
ResolveCachingMiss(c, m, t) ==
    LET r == ResolveFromImports(c, m, t)
    IN  IF r.err # NoErr THEN r
        ELSE IF r.out # Undefined THEN CacheDefined(r, GetCacheKey(m, t))
        ELSE R([r.c EXCEPT !.resolutionCache = Put(@, GetCacheKey(m, t), Undefined)],
               Undefined,
               IF t # m THEN ProviderNotFoundError(TokenString(t), ModuleName(m))
               ELSE NoErr)

\* the `if (!provider)` branch of resolve
ResolveWithoutProvider(c, m, t) ==
    LET r == ResolveFromImports(c, m, t)
    IN  IF r.err # NoErr THEN r
        ELSE IF r.out # Undefined THEN CacheDefined(r, GetCacheKey(m, t))
        ELSE IF t # m
             THEN R(r.c, Undefined, ProviderNotFoundError(TokenString(t), ModuleName(m)))
        ELSE R(r.c, Undefined, NoErr)

\* resolve, after both caches missed
ResolveUncached(c, m, t) ==
    IF ~HasProvider(c, m, t) THEN ResolveWithoutProvider(c, m, t)
    ELSE CacheDefined(InstantiateProvider(c, m, t, GetProvider(c, m, t)),
                      GetCacheKey(m, t))

\* A faulty resolve: the singleton-cache check is missing.
ResolveSkippingInstances(c, m, t) == ResolveUncached(c, m, t)

\* the singleton-cache check of resolve
ResolveFromInstances(c, m, t) ==
    IF t \in DOMAIN c.instances
    THEN R([c EXCEPT !.resolutionCache = Put(@, GetCacheKey(m, t), c.instances[t])],
           c.instances[t], NoErr)
    ELSE ResolveUncached(c, m, t)

Resolve(c, m, t) ==
    IF GetCacheKey(m, t) \in DOMAIN c.resolutionCache
    THEN R(c, c.resolutionCache[GetCacheKey(m, t)], NoErr)
    ELSE ResolveFromInstances(c, m, t)

----------------------------------------------------------------------------
(* Spec: the Container API, one call after the other.                      *)

\* How many times callers hand a (new) object to registerInstance.
MaxRegistered == 1

\* The tokens callers hand an instance for to registerInstance: a module
\* class (as instantiateModule does) and a string token.
RegisteredTokens == {"Consumer", "sX"}

\* The tokens the callers of Spec resolve.
SpecTokens == {"X", "sX", "P", "A1", "A2", "Consumer"}

\* Boolean results as values
True == [kind |-> "true", by |-> <<"", "">>, n |-> 0, args |-> <<>>]
False == [kind |-> "false", by |-> <<"", "">>, n |-> 0, args |-> <<>>]

NoLazy == [on |-> FALSE]

NoBoot == [on |-> FALSE]

\* A part of the runtime that a specification does not exercise
Off == [on |-> FALSE]

InitContainer ==
    /\ modules = EmptyMap
    /\ moduleMetadata = EmptyMap
    /\ instances = EmptyMap
    /\ resolutionCache = EmptyMap
    /\ calls = [id \in ProviderIds |-> 0]
    /\ given = 0

NoExtra ==
    dependencyTokens = Off /\ window = Off /\ flight = Off /\ race = Off /\ stack = Off

Init ==
    /\ InitContainer
    /\ lazy = NoLazy
    /\ boot = NoBoot
    /\ NoExtra

\* The state a resolution leaves behind
SetContainer(c) ==
    /\ modules' = c.modules
    /\ moduleMetadata' = c.moduleMetadata
    /\ instances' = c.instances
    /\ resolutionCache' = c.resolutionCache
    /\ calls' = c.calls

\* A faulty addModule without the `modules.has` early return: the entry is
\* created anew on every call.
AddModuleOverwriting(c, m, exports) ==
    R([c EXCEPT !.modules = Put(@, m, [providers |-> EmptyMap, exports |-> exports])],
      True, NoErr)

\* addModule(moduleClass, {exports})
AddModuleTo(c, m, exports) ==
    IF m \in DOMAIN c.modules THEN R(c, False, NoErr)
    ELSE R([c EXCEPT !.modules = Put(@, m, [providers |-> EmptyMap, exports |-> exports])],
           True, NoErr)

\* setModuleMetadata(moduleClass, metadata)
SetModuleMetadataTo(c, m, metadata) ==
    [c EXCEPT !.moduleMetadata = Put(@, m, metadata)]

\* A faulty addProvider that creates the missing registry entry instead of
\* throwing.
AddProviderCreating(c, m, t, provider) ==
    IF m \notin DOMAIN c.modules
    THEN R([c EXCEPT !.modules = Put(@, m, [providers |-> Put(EmptyMap, t, provider),
                                            exports |-> {}])],
           Undefined, NoErr)
    ELSE R([c EXCEPT !.modules[m].providers = Put(@, t, provider)], Undefined, NoErr)

\* addProvider(moduleClass, token, provider)
AddProviderTo(c, m, t, provider) ==
    IF m \notin DOMAIN c.modules
    THEN R(c, Undefined, ModuleNotRegisteredError(ModuleName(m)))
    ELSE R([c EXCEPT !.modules[m].providers = Put(@, t, provider)], Undefined, NoErr)

\* registerInstance(token, instance)
RegisterInstanceTo(c, t, v) == [c EXCEPT !.instances = Put(@, t, v)]

AddModule(m, exports) ==
    /\ SetContainer(AddModuleTo(Container, m, exports).c)
    /\ UNCHANGED <<given, lazy, boot, extra>>

SetModuleMetadata(m, imports) ==
    /\ SetContainer(SetModuleMetadataTo(Container, m, [imports |-> imports]))
    /\ UNCHANGED <<given, lazy, boot, extra>>

AddProvider(m, t) ==
    /\ SetContainer(AddProviderTo(Container, m, t, ProviderOf(m, t)).c)
    /\ UNCHANGED <<given, lazy, boot, extra>>

\* registerInstance(token, instance) with an object the caller made
RegisterInstance(t) ==
    /\ given < MaxRegistered
    /\ given' = given + 1
    /\ SetContainer(RegisterInstanceTo(Container, t, Obj(<<"given", t>>, given + 1, <<>>)))
    /\ UNCHANGED <<lazy, boot, extra>>

\* resolve(moduleClass, token): the call's effect on the container; what it
\* returns or rejects with is Resolve(Container, m, t).out and .err
ResolveCall(m, t) ==
    /\ SetContainer(Resolve(Container, m, t).c)
    /\ UNCHANGED <<given, lazy, boot, extra>>

Next ==
    \/ \E m \in ContainerModules : \E e \in ExportChoices(m) : AddModule(m, e)
    \/ \E m \in ContainerModules : \E i \in ImportChoices(m) : SetModuleMetadata(m, i)
    \/ \E m \in ContainerModules : \E t \in MayProvide(m) : AddProvider(m, t)
    \/ \E t \in RegisteredTokens : RegisterInstance(t)
    \/ \E m \in ContainerModules : \E t \in SpecTokens : ResolveCall(m, t)

Spec == Init /\ [][Next]_vars

----------------------------------------------------------------------------
(* Claims about the Container (checked under Spec).                        *)

\* What a resolve call issued in the current state returns
ResolveNow(m, t) == Resolve(Container, m, t)

\* m has a provider for t whose shape constructs: direct class,
\* class-with-token or factory
Constructs(m, t) ==
    /\ HasProvider(Container, m, t)
    /\ GetProvider(Container, m, t).shape \in {"ctor", "useClass", "factory"}

\* Neither cache answers resolve(m, t)
Uncached(m, t) ==
    /\ GetCacheKey(m, t) \notin DOMAIN resolutionCache
    /\ t \notin DOMAIN instances

\* Invocations of m's provider of t made between the current state and c
Invoked(c, m, t) == c.calls[GetProvider(Container, m, t).id] - calls[GetProvider(Container, m, t).id]

\* C1 as stated: for a registered direct class, class-with-token or factory
\* provider, two resolve calls of the same token from the same module, one
\* after the other, return the identical instance, and the provider's
\* constructor or factory has then been invoked exactly once.
C1_ExactlyOnce ==
    \A m \in ContainerModules : \A t \in SpecTokens :
        Constructs(m, t) =>
            LET r1 == ResolveNow(m, t)
                r2 == Resolve(r1.c, m, t)
            IN  r1.err = NoErr =>
                    /\ r2.err = NoErr
                    /\ r2.out = r1.out
                    /\ r2.c.calls[GetProvider(Container, m, t).id] = 1

\* C1 amended: repeated resolve calls of the same token from the same module,
\* one after the other, return the identical instance and invoke the
\* provider's constructor or factory at most once: once when neither cache
\* holds an entry for the call at the first call, and not at all otherwise.
C1_AtMostOnce ==
    \A m \in ContainerModules : \A t \in SpecTokens :
        Constructs(m, t) =>
            LET r1 == ResolveNow(m, t)
                r2 == Resolve(r1.c, m, t)
                r3 == Resolve(r2.c, m, t)
            IN  r1.err = NoErr =>
                    /\ r2.err = NoErr /\ r3.err = NoErr
                    /\ r2.out = r1.out /\ r3.out = r1.out
                    /\ Invoked(r1.c, m, t) = (IF Uncached(m, t) THEN 1 ELSE 0)
                    /\ Invoked(r3.c, m, t) = Invoked(r1.c, m, t)

\* Witness of C1: a module's own provider has been instantiated by a resolve
\* call and both caches hold the instance.
C1_Witness ==
    \E m \in ContainerModules : \E t \in {"X", "sX", "P"} :
        /\ Constructs(m, t)
        /\ calls[GetProvider(Container, m, t).id] = 1
        /\ GetCacheKey(m, t) \in DOMAIN resolutionCache
        /\ t \in DOMAIN instances
        /\ resolutionCache[GetCacheKey(m, t)] = instances[t]
        /\ instances[t].by = GetProvider(Container, m, t).id

\* Shared provides and exports t, Consumer imports Shared and has no provider
\* of t
ImportsExported(t) ==
    /\ HasProvider(Container, "Shared", t)
    /\ t \in GetModuleExports(Container, "Shared")
    /\ \E i \in 1..Len(Imports(Container, "Consumer")) :
            Imports(Container, "Consumer")[i] = "Shared"
    /\ ~HasProvider(Container, "Consumer", t)

\* resolve(first, t) then resolve(second, t) succeed with the identical
\* value, and the provider `id` has been invoked at most once in all
SameFromBoth(first, second, t, id) ==
    LET r1 == ResolveNow(first, t)
        r2 == Resolve(r1.c, second, t)
    IN  /\ r1.err = NoErr /\ r2.err = NoErr
        /\ r1.out # Undefined
        /\ r1.out = r2.out
        /\ r2.c.calls[id] <= 1

\* C2 as stated: when Shared provides and exports X and Consumer imports
\* Shared without providing X, resolve(Consumer, X) and resolve(Shared, X)
\* succeed with the identical reference in either order, X being
\* instantiated only once.
C2_ImportIdentity ==
    ImportsExported("X") =>
        /\ SameFromBoth("Consumer", "Shared", "X", <<"class", "X">>)
        /\ SameFromBoth("Shared", "Consumer", "X", <<"class", "X">>)

\* Shared has an unexported provider of t which Shared resolves successfully,
\* Consumer imports Shared and has no provider of t
ImportsUnexported(t) ==
    /\ HasProvider(Container, "Shared", t)
    /\ t \notin GetModuleExports(Container, "Shared")
    /\ \E i \in 1..Len(Imports(Container, "Consumer")) :
            Imports(Container, "Consumer")[i] = "Shared"
    /\ ~HasProvider(Container, "Consumer", t)
    /\ ResolveNow("Shared", t).err = NoErr

\* C3 as stated: in every reachable state, a provider Shared registers but
\* does not export is rejected with ProviderNotFoundError when resolved from
\* the importer Consumer.
C3_ExportBoundary ==
    \A t \in {"P", "A2"} :
        ImportsUnexported(t) =>
            ResolveNow("Consumer", t).err =
                ProviderNotFoundError(TokenString(t), ModuleName("Consumer"))

\* m declares the alias a
Aliases(m, a) ==
    /\ HasProvider(Container, m, a)
    /\ GetProvider(Container, m, a).shape = "existing"

\* resolve(m, first) then resolve(m, second) then resolve(m, third) return
\* one identical value, and the constructor of the aliased class has been
\* invoked at most once in all
SameThree(m, first, second, third) ==
    LET r1 == ResolveNow(m, first)
        r2 == Resolve(r1.c, m, second)
        r3 == Resolve(r2.c, m, third)
    IN  /\ r1.err = NoErr /\ r2.err = NoErr /\ r3.err = NoErr
        /\ r1.out # Undefined
        /\ r1.out = r2.out /\ r2.out = r3.out
        /\ r3.c.calls[<<"class", "X">>] <= 1

\* C4: when module m declares aliases of X and X resolves from m, then
\* resolve(m, alias) and resolve(m, X) return the identical instance in
\* whichever order they are called, for one alias and for two, and X is
\* instantiated at most once.
C4_AliasIdentity ==
    \A m \in ContainerModules :
        /\ \A a \in {"A1", "A2"} :
              (Aliases(m, a) /\ ResolveNow(m, "X").err = NoErr) =>
                  /\ SameThree(m, a, "X", a)
                  /\ SameThree(m, "X", a, "X")
        /\ (Aliases(m, "A1") /\ Aliases(m, "A2") /\ ResolveNow(m, "X").err = NoErr) =>
                  /\ SameThree(m, "A1", "A2", "X")
                  /\ SameThree(m, "A2", "X", "A1")
                  /\ SameThree(m, "X", "A2", "A1")

\* Witness of C4: both aliases and X have been resolved from Shared, the
\* three cached values are one object, made by the single call of X's
\* constructor.
C4_Witness ==
    /\ Aliases("Shared", "A1") /\ Aliases("Shared", "A2")
    /\ {GetCacheKey("Shared", "A1"), GetCacheKey("Shared", "A2"),
        GetCacheKey("Shared", "X")} \subseteq DOMAIN resolutionCache
    /\ resolutionCache[GetCacheKey("Shared", "A1")] = resolutionCache[GetCacheKey("Shared", "X")]
    /\ resolutionCache[GetCacheKey("Shared", "A2")] = resolutionCache[GetCacheKey("Shared", "X")]
    /\ resolutionCache[GetCacheKey("Shared", "X")].by = <<"class", "X">>
    /\ calls[<<"class", "X">>] = 1

\* m has no provider of t and no module m imports both exports and provides t
NotProvided(m, t) ==
    /\ ~HasProvider(Container, m, t)
    /\ \A i \in 1..Len(Imports(Container, m)) :
            ~ImportOffers(Container, Imports(Container, m)[i], t)

\* resolve(m, t) rejects with ProviderNotFoundError naming t and m, or, for
\* t = m, returns undefined
RejectsNotFound(m, t) ==
    IF t = m
    THEN ResolveNow(m, t).err = NoErr /\ ResolveNow(m, t).out = Undefined
    ELSE ResolveNow(m, t).err = ProviderNotFoundError(TokenString(t), ModuleName(m))

\* C5 as stated: a token with no provider on the requesting module and none
\* exported and provided by an import is rejected with ProviderNotFoundError
\* naming the token and the module; the module's own token resolves to
\* undefined instead.
C5_NotFound ==
    \A m \in ContainerModules : \A t \in SpecTokens :
        NotProvided(m, t) => RejectsNotFound(m, t)

\* C5 amended: the same, for a call that neither the resolution cache nor
\* the singleton cache answers.
C5_NotFoundUncached ==
    \A m \in ContainerModules : \A t \in SpecTokens :
        (NotProvided(m, t) /\ Uncached(m, t)) =>
            /\ RejectsNotFound(m, t)
            /\ ResolveNow(m, t).c = Container

\* Witness of C5: Consumer imports Shared and has resolved the exported X
\* through it; Shared's unexported alias A2, which no cache holds, is
\* rejected from Consumer, and Consumer's own token resolves to undefined.
C5_Witness ==
    /\ "Shared" \in DOMAIN modules /\ "Consumer" \in DOMAIN modules
    /\ Len(Imports(Container, "Consumer")) = 1
    /\ GetCacheKey("Consumer", "X") \in DOMAIN resolutionCache
    /\ HasProvider(Container, "Shared", "A2")
    /\ NotProvided("Consumer", "A2") /\ Uncached("Consumer", "A2")
    /\ ResolveNow("Consumer", "A2").err.name = "ProviderNotFoundError"
    /\ NotProvided("Consumer", "Consumer") /\ Uncached("Consumer", "Consumer")
    /\ ResolveNow("Consumer", "Consumer").out = Undefined

----------------------------------------------------------------------------
(* The registration pipeline (initializeModule and what it calls).         *)

\* A providers entry that is neither a class nor an object with `provide`.
InvalidEntry == "bad"

InvalidProviderError(m) ==
    [name |-> "InvalidProviderError", token |-> <<>>, module |-> m]
InvalidLazyTriggerError(m) ==
    [name |-> "InvalidLazyTriggerError", token |-> <<>>, module |-> m]
ModuleDecoratorMissingError(m) ==
    [name |-> "ModuleDecoratorMissingError", token |-> <<>>, module |-> m]
LazyModuleExportsNotAllowedError(m) ==
    [name |-> "LazyModuleExportsNotAllowedError", token |-> <<>>, module |-> m]
LazyModuleCannotImportLazyModuleError(m, imported) ==
    [name |-> "LazyModuleCannotImportLazyModuleError", token |-> <<imported>>,
     module |-> m]

\* An Error thrown by user code (a module constructor, an onInit hook).
ThrownBy(where) == [name |-> "Error", token |-> <<>>, module |-> where]

\* error.message: the text each error class builds
ErrorMessage(e) ==
    CASE e.name = "ProviderNotFoundError" ->
            <<"Provider not found for token", e.token, "in module", e.module, "or its imports.">>
      [] e.name = "ModuleNotRegisteredError" ->
            <<"Module", e.module, "is not registered in the container.">>
      [] e.name = "InvalidProviderError" ->
            <<"Invalid provider definition registered in module", e.module>>
      [] OTHER -> <<"thrown by", e.module>>

\* Reflect.getMetadata("RgModule", m) of the decorated module classes: the
\* eager Shared, the eager Consumer that imports it and has two IPC
\* handlers, and (for bootstrapModules) the module Lazy declared with
\* lazy: {enabled: true, trigger: "analytics"}; Lazy2, lazy with the same
\* trigger; LazyExports, lazy with an exports list and a lazy import;
\* LazyImporter, lazy with a lazy import; Host, eager with a lazy import.
MetadataOf(m) ==
    CASE m = "Consumer" ->
            [providers |-> <<>>, imports |-> <<"Shared">>, exports |-> {},
             windows |-> <<>>, ipc |-> <<"Ipc", "Ipc2">>]
      [] m = "Lazy" ->
            [providers |-> <<"X">>, imports |-> <<>>, exports |-> {},
             windows |-> <<"win">>, ipc |-> <<"Ipc">>]
      [] m = "Lazy2" ->
            [providers |-> <<"sX">>, imports |-> <<>>, exports |-> {},
             windows |-> <<>>, ipc |-> <<>>]
      [] m = "LazyExports" ->
            [providers |-> <<"X">>, imports |-> <<"Lazy">>, exports |-> {"X"},
             windows |-> <<>>, ipc |-> <<>>]
      [] m \in {"LazyImporter", "Host"} ->
            [providers |-> <<>>, imports |-> <<"Lazy">>, exports |-> {},
             windows |-> <<>>, ipc |-> <<>>]
      [] OTHER ->
            [providers |-> <<"X">>, imports |-> <<>>, exports |-> {"X"},
             windows |-> <<>>, ipc |-> <<>>]

\* Reflect.getMetadata("RgModule", m) is defined: the class carries the
\* @RgModule decorator
HasDescriptor(m) == m # "Undecorated"

\* metadata.lazy?.enabled of a decorated module class
LazyEnabled(m) == m \in {"Lazy", "Lazy2", "LazyExports", "LazyImporter"}

\* metadata.lazy.trigger of the lazy module classes
LazyTrigger(m) ==
    CASE m \in {"Lazy", "Lazy2"} -> "analytics"
      [] OTHER -> m

\* getDependencyTokens(m) of the module classes
DependencyTokensOf(m) == IF m \in {"Consumer", "Lazy"} THEN <<"X">> ELSE <<>>

RECURSIVE LazyImportFrom(_, _)

\* the loop of validateLazyConstraints: the first import whose descriptor
\* has lazy.enabled, or 0
LazyImportFrom(imports, i) ==
    IF i > Len(imports) THEN 0
    ELSE IF HasDescriptor(imports[i]) /\ LazyEnabled(imports[i]) THEN i
    ELSE LazyImportFrom(imports, i + 1)

\* validateLazyConstraints(moduleClass, metadata): the error it throws, or
\* NoErr when it returns
ValidateLazyConstraints(m, metadata) ==
    IF ~LazyEnabled(m) THEN NoErr
    ELSE IF metadata.exports # {} THEN LazyModuleExportsNotAllowedError(ModuleName(m))
    ELSE IF LazyImportFrom(metadata.imports, 1) = 0 THEN NoErr
    ELSE LazyModuleCannotImportLazyModuleError(
             ModuleName(m), ModuleName(metadata.imports[LazyImportFrom(metadata.imports, 1)]))

RECURSIVE RegisterProvidersFrom(_, _, _, _)
RECURSIVE AddProvidersFrom(_, _, _, _)
RECURSIVE RegisterImportsFrom(_, _, _)
RECURSIVE InitializeModule(_, _, _)

\* registerProviders: entries are registered in order up to the first
\* invalid one, which throws.
RegisterProvidersFrom(c, m, providers, i) ==
    IF i > Len(providers) THEN R(c, Undefined, NoErr)
    ELSE IF providers[i] = InvalidEntry
         THEN R(c, Undefined, InvalidProviderError(ModuleName(m)))
    ELSE LET a == AddProviderTo(c, m, providers[i], ProviderOf(m, providers[i]))
         IN  IF a.err # NoErr THEN a
             ELSE RegisterProvidersFrom(a.c, m, providers, i + 1)

RegisterProviders(c, m, metadata) ==
    RegisterProvidersFrom(c, m, metadata.providers, 1)

\* the loop of registerWindows and of registerIpcHandlers
AddProvidersFrom(c, m, tokens, i) ==
    IF i > Len(tokens) THEN R(c, Undefined, NoErr)
    ELSE LET a == AddProviderTo(c, m, tokens[i], ProviderOf(m, tokens[i]))
         IN  IF a.err # NoErr THEN a
             ELSE AddProvidersFrom(a.c, m, tokens, i + 1)

\* registerWindows: each window class is stored under its hash
RegisterWindows(c, m, metadata) == AddProvidersFrom(c, m, metadata.windows, 1)

\* registerIpcHandlers
RegisterIpcHandlers(c, m, metadata) == AddProvidersFrom(c, m, metadata.ipc, 1)

\* A faulty registerImports that initializes none of the imports.
RegisterImportsSkipped(c, imports, i) == R(c, Undefined, NoErr)

\* registerImports: initializeModule of each import that has a descriptor,
\* in order
RegisterImportsFrom(c, imports, i) ==
    IF i > Len(imports) THEN R(c, Undefined, NoErr)
    ELSE IF ~HasDescriptor(imports[i]) THEN RegisterImportsFrom(c, imports, i + 1)
    ELSE LET r == InitializeModule(c, imports[i], MetadataOf(imports[i]))
         IN  IF r.err # NoErr THEN r
             ELSE RegisterImportsFrom(r.c, imports, i + 1)

RegisterImports(c, metadata) == RegisterImportsFrom(c, metadata.imports, 1)

\* A faulty initializeModule without the `if (!isNewModule) return`.
InitializeModuleAgain(c, m, metadata) ==
    LET a == AddModuleTo(c, m, metadata.exports)
        c1 == SetModuleMetadataTo(a.c, m, metadata)
    IN  R(RegisterProviders(c1, m, metadata).c, True,
          RegisterProviders(c1, m, metadata).err)

\* initializeModule up to its first await: addModule, setModuleMetadata, the
\* isNewModule test and the (synchronous) body of registerProviders.  `out`
\* is isNewModule.
InitializeModuleSync(c, m, metadata) ==
    LET a == AddModuleTo(c, m, metadata.exports)
        c1 == SetModuleMetadataTo(a.c, m, metadata)
    IN  IF a.out = False THEN R(c1, False, NoErr)
        ELSE R(RegisterProviders(c1, m, metadata).c, True,
               RegisterProviders(c1, m, metadata).err)

\* initializeModule after registerProviders: registerImports,
\* registerWindows, registerIpcHandlers
InitializeModuleRest(c, m, metadata) ==
    LET i == RegisterImports(c, metadata)
    IN  IF i.err # NoErr THEN i
        ELSE LET w == RegisterWindows(i.c, m, metadata)
             IN  IF w.err # NoErr THEN w
                 ELSE RegisterIpcHandlers(w.c, m, metadata)

InitializeModule(c, m, metadata) ==
    LET s == InitializeModuleSync(c, m, metadata)
    IN  IF s.err # NoErr \/ s.out = False THEN s
        ELSE InitializeModuleRest(s.c, m, metadata)

\* instantiateModule when the constructor returns: new moduleClass(...deps)
\* and registerInstance(moduleClass, instance)
InstantiateModule(c, m, deps) ==
    LET d == ResolveDependencies(c, m, deps)
    IN  IF d.err # NoErr THEN d
        ELSE Construct(d.c, m, <<"class", m>>, d.out)

\* bootstrapModules([m]) for an eager module without IPC handlers
BootstrapModule(c, m) ==
    LET i == InitializeModule(c, m, MetadataOf(m))
    IN  IF i.err # NoErr THEN i
        ELSE LET n == InstantiateModule(i.c, m, DependencyTokensOf(m))
             IN  IF n.err # NoErr THEN n ELSE Resolve(n.c, m, m)

----------------------------------------------------------------------------
(* The lazy activation gate: registerLazyModule and the handler it hands   *)
(* to ipcMain.handle.                                                      *)

\* Handler invocations made in a behaviour.
MaxInvocations == 3

\* Errors user code (the module constructor, an onInit hook) throws in a
\* behaviour.
MaxThrows == 1

\* The lazy module classes: the @RgModule metadata and the constructor's
\* dependency tokens.  In turn: a module with a provider, a window and an IPC
\* handler; one with an invalid providers entry; one that gets its
\* dependency from an import; one whose dependency nobody provides.
LazyClasses ==
    {[metadata |-> [providers |-> <<"X">>, imports |-> <<>>, exports |-> {},
                    windows |-> <<"win">>, ipc |-> <<"Ipc">>],
      deps |-> <<"X">>],
     [metadata |-> [providers |-> <<"X", InvalidEntry, "P">>, imports |-> <<>>,
                    exports |-> {}, windows |-> <<>>, ipc |-> <<>>],
      deps |-> <<"X">>],
     [metadata |-> [providers |-> <<>>, imports |-> <<"Shared">>, exports |-> {},
                    windows |-> <<>>, ipc |-> <<"Ipc">>],
      deps |-> <<"X">>],
     [metadata |-> [providers |-> <<>>, imports |-> <<>>, exports |-> {},
                    windows |-> <<>>, ipc |-> <<>>],
      deps |-> <<"P">>]}

\* A lazy descriptor whose trigger is not a string (left out, or a number)
NotAString == "not a string"

\* metadata.lazy.trigger
Triggers == {"analytics", " analytics ", " ", NotAString}

\* typeof trigger === "string"
IsString(trigger) == trigger # NotAString

\* A faulty getValidLazyTrigger that tests and returns the trigger untrimmed.
NoTrim(trigger) == trigger

\* String.prototype.trim
Trim(trigger) ==
    CASE trigger = " analytics " -> "analytics"
      [] trigger = " " -> ""
      [] OTHER -> trigger

\* Promise states of one initialization attempt (the async IIFE), with ghost
\* counters of what the attempt ran.
Pending ==
    [state |-> "pending", initialized |-> FALSE, name |-> "", message |-> <<>>]
Fulfilled(initialized, name, message) ==
    [state |-> "fulfilled", initialized |-> initialized, name |-> name,
     message |-> message]
Rejected(message) ==
    [state |-> "rejected", initialized |-> FALSE, name |-> "", message |-> message]

NewAttempt == [promise |-> Pending, thrown |-> NoErr, ctor |-> 0, onInit |-> 0]

\* A faulty registration: the module is initialized at once.
RegisterEagerly(c, class, trigger) ==
    R(InitializeModule(c, "Lazy", class.metadata).c, Trim(trigger), NoErr)

\* getValidLazyTrigger and ipcMain.handle: registration leaves the container
\* alone; `out` is the channel the handler is installed on.
RegisterLazyModuleTo(c, class, trigger) ==
    IF ~IsString(trigger) \/ Trim(trigger) = ""
    THEN R(c, "", InvalidLazyTriggerError(ModuleName("Lazy")))
    ELSE R(c, Trim(trigger), NoErr)

\* A faulty handler: it never returns the promise in flight.
HandlerNeverReuses(lz) == FALSE

\* A faulty handler: it returns the promise in flight only while pending.
HandlerReusesPending(lz) ==
    /\ lz.initPromise # 0
    /\ lz.attempts[lz.initPromise].promise.state = "pending"

\* `if (initPromise) return initPromise`
HandlerReuses(lz) == lz.initPromise # 0

\* A faulty catch block: initPromise is left as it is.
CatchKeeps(initPromise) == initPromise

\* `initPromise = null` of the catch block
CatchClears(initPromise) == 0

\* A missing catch block: the IIFE rejects with the error.
Rethrow(channel, err) == Rejected(ErrorMessage(err))

\* what the IIFE returns from its catch block
CatchResult(channel, err) == Fulfilled(FALSE, channel, ErrorMessage(err))

\* what the IIFE returns at the end of its try block
TryResult(channel) == Fulfilled(TRUE, channel, <<>>)

\* Ghost of an invocation: the attempt whose promise it got, and how many
\* attempts had failed and whether one had succeeded when it was made.
Failed(lz) ==
    {a \in 1..Len(lz.attempts) :
        lz.attempts[a].promise.state # "pending" /\ ~lz.attempts[a].promise.initialized}
Succeeded(lz) ==
    {a \in 1..Len(lz.attempts) :
        lz.attempts[a].promise.state = "fulfilled" /\ lz.attempts[a].promise.initialized}
Invocation(lz, a) ==
    [got |-> a, failed |-> Cardinality(Failed(lz)), succeeded |-> Succeeded(lz) # {}]

LazyInit ==
    /\ InitContainer
    /\ lazy \in {[on |-> TRUE, class |-> cl, trigger |-> tr, handler |-> FALSE,
                  channel |-> "", regErr |-> NoErr, initPromise |-> 0,
                  attempts |-> <<>>, running |-> 0, pc |-> "idle", err |-> NoErr,
                  i |-> 0, invocations |-> <<>>, throws |-> 0] :
                    cl \in LazyClasses, tr \in Triggers}
    /\ boot = NoBoot
    /\ NoExtra

\* registerLazyModule(Lazy, metadata)
RegisterLazyModule ==
    /\ ~lazy.handler /\ lazy.regErr = NoErr
    /\ LET r == RegisterLazyModuleTo(Container, lazy.class, lazy.trigger)
       IN  /\ SetContainer(r.c)
           /\ lazy' = [lazy EXCEPT !.handler = (r.err = NoErr), !.channel = r.out,
                                   !.regErr = r.err]
    /\ UNCHANGED <<given, boot, extra>>

\* One invocation of the handler: it returns the promise in flight, or
\* starts the IIFE, which runs up to its first await.
Invoke ==
    /\ lazy.handler
    /\ Len(lazy.invocations) < MaxInvocations
    /\ IF HandlerReuses(lazy)
       THEN /\ lazy' = [lazy EXCEPT !.invocations =
                                        Append(@, Invocation(lazy, lazy.initPromise))]
            /\ UNCHANGED <<modules, moduleMetadata, instances, resolutionCache, calls>>
       ELSE LET a == Len(lazy.attempts) + 1
                s == InitializeModuleSync(Container, "Lazy", lazy.class.metadata)
            IN  /\ SetContainer(s.c)
                /\ lazy' = [lazy EXCEPT
                        !.initPromise = a,
                        !.running = a,
                        !.attempts = Append(@, NewAttempt),
                        !.pc = IF s.err # NoErr THEN "catch"
                               ELSE IF s.out = False THEN "instantiate"
                               ELSE "register",
                        !.err = s.err,
                        !.invocations = Append(@, Invocation(lazy, a))]
    /\ UNCHANGED <<given, boot, extra>>

\* The stage of the IIFE that just ran leaves container c and error err.
Advance(c, err, next, lz) ==
    /\ SetContainer(c)
    /\ lazy' = [lz EXCEPT !.pc = IF err # NoErr THEN "catch" ELSE next,
                          !.err = err]
    /\ UNCHANGED <<given, boot, extra>>

\* the rest of `await initializeModule(moduleClass, metadata)`
Register ==
    /\ lazy.on /\ lazy.pc = "register"
    /\ LET r == InitializeModuleRest(Container, "Lazy", lazy.class.metadata)
       IN  Advance(r.c, r.err, "instantiate", lazy)

\* `await instantiateModule(moduleClass)`: the constructor returns or throws
Instantiate ==
    /\ lazy.on /\ lazy.pc = "instantiate"
    /\ LET d == ResolveDependencies(Container, "Lazy", lazy.class.deps)
           ran == [lazy EXCEPT !.attempts[lazy.running].ctor = @ + 1]
       IN  IF d.err # NoErr THEN Advance(d.c, d.err, "catch", lazy)
           ELSE \/ Advance(InstantiateModule(Container, "Lazy", lazy.class.deps).c,
                           NoErr, "resolve", ran)
                \/ /\ lazy.throws < MaxThrows
                   /\ Advance(d.c, ThrownBy("constructor"), "catch",
                              [ran EXCEPT !.throws = @ + 1])

\* `await container.resolve(moduleClass, moduleClass)`
ResolveSelf ==
    /\ lazy.on /\ lazy.pc = "resolve"
    /\ LET r == Resolve(Container, "Lazy", "Lazy")
       IN  Advance(r.c, r.err, "ipc", [lazy EXCEPT !.i = 1])

\* one round of the loop of initializeIpcHandlers: resolve the handler and
\* await its onInit, which returns or throws
InitializeIpcHandler ==
    /\ lazy.on /\ lazy.pc = "ipc"
    /\ lazy.i <= Len(lazy.class.metadata.ipc)
    /\ LET r == Resolve(Container, "Lazy", lazy.class.metadata.ipc[lazy.i])
           ran == [lazy EXCEPT !.attempts[lazy.running].onInit = @ + 1]
       IN  IF r.err # NoErr THEN Advance(r.c, r.err, "catch", lazy)
           ELSE \/ Advance([r.c EXCEPT !.calls[<<"onInit", "Ipc">>] = @ + 1],
                           NoErr, "ipc", [ran EXCEPT !.i = @ + 1])
                \/ /\ lazy.throws < MaxThrows
                   /\ Advance(r.c, ThrownBy("onInit"), "catch",
                              [ran EXCEPT !.throws = @ + 1])

\* the end of the try block
Return ==
    /\ lazy.on /\ lazy.pc = "ipc"
    /\ lazy.i > Len(lazy.class.metadata.ipc)
    /\ lazy' = [lazy EXCEPT !.attempts[lazy.running].promise = TryResult(lazy.channel),
                            !.pc = "done"]
    /\ UNCHANGED <<modules, moduleMetadata, instances, resolutionCache, calls, given, boot, extra>>

\* the catch block
Catch ==
    /\ lazy.on /\ lazy.pc = "catch"
    /\ lazy' = [lazy EXCEPT
            !.initPromise = CatchClears(@),
            !.attempts[lazy.running].promise = CatchResult(lazy.channel, lazy.err),
            !.attempts[lazy.running].thrown = lazy.err,
            !.pc = "idle",
            !.err = NoErr]
    /\ UNCHANGED <<modules, moduleMetadata, instances, resolutionCache, calls, given, boot, extra>>

\* bootstrapModules([Shared]) for the eager module
BootstrapEager ==
    /\ lazy.on /\ "Shared" \notin DOMAIN modules
    /\ SetContainer(BootstrapModule(Container, "Shared").c)
    /\ UNCHANGED <<given, lazy, boot, extra>>

LazyNext ==
    \/ RegisterLazyModule
    \/ Invoke
    \/ Register
    \/ Instantiate
    \/ ResolveSelf
    \/ InitializeIpcHandler
    \/ Return
    \/ Catch
    \/ BootstrapEager

LazySpec == LazyInit /\ [][LazyNext]_vars

----------------------------------------------------------------------------
(* Claims about the lazy gate (checked under LazySpec).                    *)

\* What invocation i of the handler resolves with
Outcome(i) == lazy.attempts[lazy.invocations[i].got].promise

PendingAttempts ==
    {a \in 1..Len(lazy.attempts) : lazy.attempts[a].promise.state = "pending"}

\* C6: handler invocations that meet the same initialization in flight (the
\* one that starts it and those made before it settles) get the same promise
\* and so the same result; at most one attempt is in flight; and an attempt
\* constructs the module class and calls each IPC handler's onInit at most
\* once, exactly once when it succeeds.
C6_ConcurrentTriggers ==
    /\ \A i, j \in 1..Len(lazy.invocations) :
          lazy.invocations[i].failed = lazy.invocations[j].failed =>
              /\ lazy.invocations[i].got = lazy.invocations[j].got
              /\ Outcome(i) = Outcome(j)
    /\ Cardinality(PendingAttempts) <= 1
    /\ \A a \in 1..Len(lazy.attempts) :
          /\ lazy.attempts[a].ctor <= 1
          /\ lazy.attempts[a].onInit <= Len(lazy.class.metadata.ipc)
          /\ a \in Succeeded(lazy) =>
                /\ lazy.attempts[a].ctor = 1
                /\ lazy.attempts[a].onInit = Len(lazy.class.metadata.ipc)
    /\ calls[<<"class", "Lazy">>] <= Len(lazy.attempts)

\* Witness of C6: three invocations, the later two made while the first
\* attempt was in flight, all got that attempt's promise, which succeeded
\* after one construction of the module class and one onInit.
C6_Witness ==
    /\ Len(lazy.invocations) = 3
    /\ \A i \in 1..3 :
          /\ lazy.invocations[i].got = 1
          /\ lazy.invocations[i].failed = 0
          /\ ~lazy.invocations[i].succeeded
    /\ Succeeded(lazy) = {1}
    /\ calls[<<"class", "Lazy">>] = 1
    /\ calls[<<"onInit", "Ipc">>] = 1

\* C7: a failed attempt is not kept: initPromise never holds a failed
\* attempt's promise once the catch block has run, so every invocation gets
\* the promise of an attempt that had not failed when the invocation was
\* made, and after a failure nothing is in flight until the next invocation
\* starts a new attempt.
C7_RetriableFailure ==
    /\ lazy.initPromise # 0 => lazy.initPromise \notin Failed(lazy)
    /\ \A i \in 1..Len(lazy.invocations) :
          lazy.invocations[i].got > lazy.invocations[i].failed
    /\ (lazy.on /\ lazy.pc = "idle") => lazy.initPromise = 0

\* Witness of C7: the first attempt failed, a later invocation started a
\* second attempt, and that one succeeded.
C7_Witness ==
    /\ 1 \in Failed(lazy)
    /\ 2 \in Succeeded(lazy)
    /\ \E i \in 1..Len(lazy.invocations) :
          /\ lazy.invocations[i].got = 2
          /\ lazy.invocations[i].failed = 1
    /\ lazy.initPromise = 2

\* C8: once an attempt has returned {initialized: true, name: trigger}, no
\* step starts another attempt, constructs the module class or calls onInit
\* again, and every further invocation resolves with that same result.
C8_SuccessTerminal ==
    [][Succeeded(lazy) # {} =>
          /\ lazy'.attempts = lazy.attempts
          /\ lazy'.initPromise = lazy.initPromise
          /\ calls'[<<"class", "Lazy">>] = calls[<<"class", "Lazy">>]
          /\ calls'[<<"onInit", "Ipc">>] = calls[<<"onInit", "Ipc">>]
          /\ instances'["Lazy"] = instances["Lazy"]
          /\ modules'["Lazy"] = modules["Lazy"]
          /\ Len(lazy'.invocations) > Len(lazy.invocations) =>
                lazy'.attempts[lazy'.invocations[Len(lazy'.invocations)].got].promise
                    = TryResult(Trim(lazy.trigger))]_vars

\* Witness of C8: invocations made after the success are answered with the
\* successful attempt's promise; the module class was constructed once.
C8_Witness ==
    /\ Len(lazy.invocations) = 3
    /\ lazy.invocations[2].succeeded /\ lazy.invocations[3].succeeded
    /\ Outcome(2) = TryResult("analytics") /\ Outcome(3) = TryResult("analytics")
    /\ lazy.invocations[1].got = lazy.invocations[3].got
    /\ calls[<<"class", "Lazy">>] = 1

\* C9: no attempt's promise is ever rejected: an error thrown in any stage
\* of the attempt reaches the catch block, and the attempt resolves with
\* {initialized: false, name: trigger, error: {message}} carrying that
\* error's message.
C9_NeverRejects ==
    /\ \A a \in 1..Len(lazy.attempts) :
          /\ lazy.attempts[a].promise.state \in {"pending", "fulfilled"}
          /\ a \in Failed(lazy) =>
                /\ lazy.attempts[a].thrown # NoErr
                /\ lazy.attempts[a].promise =
                      Fulfilled(FALSE, Trim(lazy.trigger),
                                ErrorMessage(lazy.attempts[a].thrown))
          /\ a \in Succeeded(lazy) => lazy.attempts[a].thrown = NoErr
    /\ lazy.on => (lazy.err # NoErr <=> lazy.pc = "catch")

\* Witness of C9: attempts have failed with errors of two different kinds,
\* one thrown by the pipeline and one by user code, and both were turned
\* into results.
C9_Witness ==
    \E a, b \in Failed(lazy) :
        /\ lazy.attempts[a].thrown.name \in
              {"InvalidProviderError", "ProviderNotFoundError"}
        /\ lazy.attempts[b].thrown.name = "Error"
        /\ lazy.attempts[a].promise.state = "fulfilled"
        /\ lazy.attempts[b].promise.state = "fulfilled"

\* C10: while the handler is installed and has not been invoked, the lazy
\* module is not in the container (hasModule is false), none of its
\* providers is registered, its class has not been constructed and no
\* attempt has started.
C10_RegistrationOnly ==
    (lazy.on /\ lazy.handler /\ lazy.invocations = <<>>) =>
        /\ ~HasModule(Container, "Lazy")
        /\ "Lazy" \notin DOMAIN moduleMetadata
        /\ \A t \in Tokens : ~HasProvider(Container, "Lazy", t)
        /\ "Lazy" \notin DOMAIN instances
        /\ calls[<<"class", "Lazy">>] = 0
        /\ lazy.attempts = <<>> /\ lazy.initPromise = 0

\* Witness of C10: the handler is installed on the trimmed channel, the
\* eager module has been bootstrapped meanwhile, and the lazy module is
\* still unknown to the container.
C10_Witness ==
    /\ lazy.on /\ lazy.handler /\ lazy.invocations = <<>>
    /\ lazy.trigger = " analytics " /\ lazy.channel = "analytics"
    /\ HasModule(Container, "Shared")
    /\ ~HasModule(Container, "Lazy")

Registered(lz) == lz.handler \/ lz.regErr # NoErr

C24_Rejected ==
    /\ lazy.on /\ lazy.trigger = NotAString
    /\ lazy.regErr = InvalidLazyTriggerError("Lazy") /\ ~lazy.handler

----------------------------------------------------------------------------
(* BootSpec: bootstrapModules(list), one await point after the other.      *)

\* The module classes a list passed to bootstrapModules is made of.
BootModules ==
    {"Shared", "Consumer", "Lazy", "Lazy2", "LazyExports", "LazyImporter", "Host",
     "Undecorated"}

\* The longest list passed to bootstrapModules
MaxListLen == 3

\* The lists: every order of every choice of one to MaxListLen of the
\* module classes.
BootLists ==
    {l \in UNION {[1..n -> BootModules] : n \in 1..MaxListLen} :
        \A i, j \in DOMAIN l : l[i] = l[j] => i = j}

\* A faulty loop without the `if (!metadata)` test.
DescriptorNeverMissing(m) == FALSE

\* `if (!metadata)` of bootstrapModules
DescriptorMissing(m) == ~HasDescriptor(m)

\* A faulty loop: the onInit promise is not awaited.
OnInitNotAwaited(b) == TRUE

\* `await ipcInstance.onInit({ getWindow })`: the loop goes on when the
\* hook's promise has settled
OnInitAwaited(b) == b.running = {}

BootInit ==
    /\ InitContainer
    /\ lazy = NoLazy
    /\ boot \in {[on |-> TRUE, list |-> l, k |-> 1, pc |-> "initialize", i |-> 0,
                  running |-> {}, err |-> NoErr, log |-> <<>>, handlers |-> {}] :
                    l \in BootLists}
    /\ NoExtra

\* A faulty loop that empties the registry when a step has thrown.
BootAdvanceRollingBack(c, err, next, b) ==
    /\ SetContainer(IF err # NoErr
                    THEN [c EXCEPT !.modules = EmptyMap, !.moduleMetadata = EmptyMap]
                    ELSE c)
    /\ boot' = [b EXCEPT !.pc = IF err # NoErr THEN "failed" ELSE next,
                         !.err = err]
    /\ UNCHANGED <<given, lazy, extra>>

\* The step of the loop body that just ran leaves container c and error
\* err; an error rejects bootstrapModules.
BootAdvance(c, err, next, b) ==
    /\ SetContainer(c)
    /\ boot' = [b EXCEPT !.pc = IF err # NoErr THEN "failed" ELSE next,
                         !.err = err]
    /\ UNCHANGED <<given, lazy, extra>>

\* the descriptor test and `await initializeModule(moduleClass, metadata)`
BootInitialize ==
    /\ boot.on /\ boot.pc = "initialize"
    /\ LET m == boot.list[boot.k]
           r == InitializeModule(Container, m, MetadataOf(m))
       IN  IF DescriptorMissing(m)
           THEN BootAdvance(Container, ModuleDecoratorMissingError(ModuleName(m)),
                            "instantiate", boot)
           ELSE BootAdvance(r.c, r.err, "instantiate",
                            [boot EXCEPT !.log = Append(@, <<"initializeModule", m, "">>)])

\* `await instantiateModule(moduleClass)`
BootInstantiate ==
    /\ boot.on /\ boot.pc = "instantiate"
    /\ LET m == boot.list[boot.k]
           r == InstantiateModule(Container, m, DependencyTokensOf(m))
       IN  BootAdvance(r.c, r.err, "resolve",
                       [boot EXCEPT !.log = Append(@, <<"instantiateModule", m, "">>)])

\* `await container.resolve(moduleClass, moduleClass)`
BootResolve ==
    /\ boot.on /\ boot.pc = "resolve"
    /\ LET m == boot.list[boot.k]
           r == Resolve(Container, m, m)
       IN  BootAdvance(r.c, r.err, "ipc", [boot EXCEPT !.i = 1])

\* one round of the loop of initializeIpcHandlers: resolve the handler and
\* call its onInit
BootIpcHandler ==
    /\ boot.on /\ boot.pc = "ipc"
    /\ boot.i <= Len(MetadataOf(boot.list[boot.k]).ipc)
    /\ OnInitAwaited(boot)
    /\ LET m == boot.list[boot.k]
           h == MetadataOf(m).ipc[boot.i]
           r == Resolve(Container, m, h)
       IN  BootAdvance(r.c, r.err, "ipc",
                       [boot EXCEPT !.i = @ + 1,
                                    !.running = @ \cup {<<m, h>>},
                                    !.log = Append(@, <<"onInit", m, h>>)])

\* the promise of an onInit hook settles
OnInitReturns ==
    /\ boot.on
    /\ \E hook \in boot.running :
          /\ boot' = [boot EXCEPT !.running = @ \ {hook},
                                  !.log = Append(@, <<"onInit returned", hook[1], hook[2]>>)]
          /\ calls' = [calls EXCEPT ![<<"onInit", hook[2]>>] = @ + 1]
    /\ UNCHANGED <<modules, moduleMetadata, instances, resolutionCache, given, lazy, extra>>

\* the end of the loop body: on to the next module of the list
BootNextModule ==
    /\ boot.on /\ boot.pc = "ipc"
    /\ boot.i > Len(MetadataOf(boot.list[boot.k]).ipc)
    /\ OnInitAwaited(boot)
    /\ boot' = [boot EXCEPT !.k = @ + 1,
                            !.pc = IF boot.k = Len(boot.list) THEN "done" ELSE "initialize",
                            !.log = Append(@, <<"completed", boot.list[boot.k], "">>)]
    /\ UNCHANGED <<modules, moduleMetadata, instances, resolutionCache, calls, given, lazy, extra>>

BootNext ==
    \/ BootInitialize
    \/ BootInstantiate
    \/ BootResolve
    \/ BootIpcHandler
    \/ OnInitReturns
    \/ BootNextModule

BootSpec == BootInit /\ [][BootNext]_vars

----------------------------------------------------------------------------
(* Claims about bootstrapModules (checked under BootSpec).                 *)

\* C11 as stated: bootstrapModules leaves every lazy module of its list
\* out of the container (hasModule false, constructor not called) at every
\* point of the call and, when it has returned, has installed exactly one
\* trigger handler for each lazy module and fully initialized every eager
\* module.
C11_LazyDeferred ==
    boot.on =>
        \A k \in DOMAIN boot.list :
            LET m == boot.list[k]
            IN  IF LazyEnabled(m)
                THEN /\ ~HasModule(Container, m)
                     /\ calls[<<"class", m>>] = 0
                     /\ boot.pc = "done" =>
                            Cardinality({h \in boot.handlers : h.module = m}) = 1
                ELSE boot.pc = "done" =>
                        /\ HasModule(Container, m)
                        /\ calls[<<"class", m>>] = 1
                        /\ m \in DOMAIN instances

RECURSIVE HookLog(_, _, _)
RECURSIVE ExpectedLog(_, _)

\* The events of module m's IPC handlers from the i-th on: each onInit is
\* called and returns before the next is called.
HookLog(m, ipc, i) ==
    IF i > Len(ipc) THEN <<>>
    ELSE <<<<"onInit", m, ipc[i]>>, <<"onInit returned", m, ipc[i]>>>>
            \o HookLog(m, ipc, i + 1)

\* The events of a whole bootstrapModules(list) from the k-th module on
ExpectedLog(list, k) ==
    IF k > Len(list) THEN <<>>
    ELSE <<<<"initializeModule", list[k], "">>, <<"instantiateModule", list[k], "">>>>
            \o HookLog(list[k], MetadataOf(list[k]).ipc, 1)
            \o <<<<"completed", list[k], "">>>>
            \o ExpectedLog(list, k + 1)

\* Module m is imported by one of the first k modules of the list
ImportedByFirst(m, k) ==
    \E j \in 1..k : \E i \in DOMAIN MetadataOf(boot.list[j]).imports :
        MetadataOf(boot.list[j]).imports[i] = m

EagerModuleCannotImportLazyModuleError(m, imported) ==
    [name |-> "EagerModuleCannotImportLazyModuleError", token |-> <<imported>>,
     module |-> m]
DuplicateLazyTriggerError(trigger, first, second) ==
    [name |-> "DuplicateLazyTriggerError", token |-> <<trigger, first>>,
     module |-> second]

\* The loop of bootstrapModules is past the registration of the k-th module
\* of its list
PastRegistration(k) == boot.k > k \/ (boot.k = k /\ boot.pc # "initialize")

\* bootstrapModules has rejected with err at the k-th module, before
\* registering it
RejectedAt(k, err) == boot.k = k /\ boot.pc = "failed" /\ boot.err = err

\* C21 as stated: a lazy module of the list that declares exports makes
\* bootstrapModules reject with LazyModuleExportsNotAllowedError; the module
\* is never in the registry and none of its providers is registered.
C21_LazyExportsRejected ==
    boot.on =>
        \A k \in DOMAIN boot.list :
            LET m == boot.list[k]
            IN  (HasDescriptor(m) /\ LazyEnabled(m) /\ MetadataOf(m).exports # {}) =>
                    /\ ~HasModule(Container, m)
                    /\ \A t \in Tokens : ~HasProvider(Container, m, t)
                    /\ PastRegistration(k) =>
                           RejectedAt(k, LazyModuleExportsNotAllowedError(ModuleName(m)))

\* C22 as stated: a lazy module of the list without exports whose imports
\* contain a lazy module makes bootstrapModules reject with
\* LazyModuleCannotImportLazyModuleError naming both; the validation reports
\* exports before imports and passes every module that is not lazy.
C22_LazyImportRejected ==
    /\ \A m \in BootModules \ {"Undecorated"} :
           /\ ~LazyEnabled(m) => ValidateLazyConstraints(m, MetadataOf(m)) = NoErr
           /\ (LazyEnabled(m) /\ MetadataOf(m).exports # {}) =>
                  ValidateLazyConstraints(m, MetadataOf(m)) =
                      LazyModuleExportsNotAllowedError(ModuleName(m))
    /\ boot.on =>
        \A k \in DOMAIN boot.list :
            LET m == boot.list[k]
                lazyImport == LazyImportFrom(MetadataOf(m).imports, 1)
            IN  (/\ HasDescriptor(m) /\ LazyEnabled(m)
                 /\ MetadataOf(m).exports = {} /\ lazyImport # 0
                 /\ PastRegistration(k)) =>
                    RejectedAt(k, LazyModuleCannotImportLazyModuleError(
                                      ModuleName(m),
                                      ModuleName(MetadataOf(m).imports[lazyImport])))

\* C23 as stated: an eager module of the list whose imports contain a lazy
\* module makes bootstrapModules reject with
\* EagerModuleCannotImportLazyModuleError, and the imported lazy module is
\* not registered by that import.
C23_EagerImportRejected ==
    boot.on =>
        \A k \in DOMAIN boot.list :
            LET m == boot.list[k]
                lazyImport == LazyImportFrom(MetadataOf(m).imports, 1)
            IN  (/\ HasDescriptor(m) /\ ~LazyEnabled(m) /\ lazyImport # 0
                 /\ PastRegistration(k)) =>
                    /\ RejectedAt(k, EagerModuleCannotImportLazyModuleError(
                                         ModuleName(m),
                                         ModuleName(MetadataOf(m).imports[lazyImport])))
                    /\ boot.list = <<m>> =>
                           ~HasModule(Container, MetadataOf(m).imports[lazyImport])

\* C25 as stated: when the list holds two valid lazy modules with the same
\* trigger name, bootstrapModules rejects with DuplicateLazyTriggerError at
\* the second of them, and at no time do two installed handlers share a
\* trigger name.
C25_DuplicateTriggerRejected ==
    boot.on =>
        /\ \A i, j \in DOMAIN boot.list :
              LET first == boot.list[i]
                  second == boot.list[j]
              IN  (/\ i < j
                   /\ \A k \in 1..j : HasDescriptor(boot.list[k])
                   /\ \A k \in 1..j : ~LazyEnabled(boot.list[k]) \/ k \in {i, j}
                   /\ LazyEnabled(first) /\ LazyEnabled(second)
                   /\ ValidateLazyConstraints(first, MetadataOf(first)) = NoErr
                   /\ ValidateLazyConstraints(second, MetadataOf(second)) = NoErr
                   /\ LazyTrigger(first) = LazyTrigger(second)
                   /\ PastRegistration(j)) =>
                      RejectedAt(j, DuplicateLazyTriggerError(
                                        LazyTrigger(first), ModuleName(first),
                                        ModuleName(second)))
        /\ \A g, h \in boot.handlers : g.trigger = h.trigger => g = h

\* C26: when bootstrapModules reaches a module without a descriptor it
\* rejects with ModuleDecoratorMissingError naming the module; that module is
\* never registered, has no stored metadata and is never constructed, and no
\* later module of the list is processed.
C26_DecoratorMissing ==
    boot.on =>
        \A k \in DOMAIN boot.list :
            LET m == boot.list[k]
            IN  ~HasDescriptor(m) =>
                    /\ ~HasModule(Container, m)
                    /\ m \notin DOMAIN moduleMetadata
                    /\ m \notin DOMAIN instances
                    /\ calls[<<"class", m>>] = 0
                    /\ boot.k <= k
                    /\ PastRegistration(k) =>
                           /\ RejectedAt(k, ModuleDecoratorMissingError(ModuleName(m)))
                           /\ \A i \in 1..Len(boot.log) : boot.log[i][2] # m

\* Witness of C26: bootstrapModules([Consumer, Undecorated, Shared]) has
\* rejected at its second module after bootstrapping Consumer in full.
C26_Witness ==
    /\ boot.on /\ boot.list = <<"Consumer", "Undecorated", "Shared">>
    /\ boot.pc = "failed" /\ boot.k = 2
    /\ boot.err = ModuleDecoratorMissingError("Undecorated")
    /\ "Consumer" \in DOMAIN instances
    /\ calls[<<"onInit", "Ipc2">>] = 1
    /\ "Shared" \notin DOMAIN instances

----------------------------------------------------------------------------
(* Further claims about the Container (checked under Spec).                *)

\* The token and the module a ProviderNotFoundError names
MissingToken(err) == CHOOSE t \in Tokens : TokenString(t) = err.token
MissingModule(err) == CHOOSE m \in Modules : ModuleName(m) = err.module

\* addProvider of the provider the error reports missing, on the module it
\* names
RegisterMissing(c, err) ==
    AddProviderTo(c, MissingModule(err), MissingToken(err),
                  ProviderOf(MissingModule(err), MissingToken(err))).c

RECURSIVE RetryAfterRegistering(_, _, _, _)

\* A caller that catches ProviderNotFoundError, registers the provider it
\* names and repeats resolve(m, t), until the call no longer fails or names
\* a provider the caller has registered already
RetryAfterRegistering(c, m, t, added) ==
    LET r == Resolve(c, m, t)
    IN  IF r.err.name # "ProviderNotFoundError" THEN r
        ELSE IF <<r.err.module, r.err.token>> \in added THEN r
        ELSE RetryAfterRegistering(RegisterMissing(r.c, r.err), m, t,
                                   added \cup {<<r.err.module, r.err.token>>})

ExportLists == SUBSET {"X", "P"}

\* C14: addModule on an unregistered module creates the entry (empty
\* provider map, the exports passed) and returns true; on a registered
\* module, also right after that first call and with any other exports list,
\* it returns false and leaves the container, hence the module's provider
\* map and export set, as it was.
C14_AddModuleIdempotent ==
    \A m \in ContainerModules : \A e1, e2 \in ExportLists :
        LET first == AddModuleTo(Container, m, e1)
            second == AddModuleTo(first.c, m, e2)
        IN  /\ first.err = NoErr /\ second.err = NoErr
            /\ second.out = False
            /\ second.c = first.c
            /\ IF HasModule(Container, m)
               THEN first.out = False /\ first.c = Container
               ELSE /\ first.out = True
                    /\ first.c.modules[m] = [providers |-> EmptyMap, exports |-> e1]
                    /\ first.c = [Container EXCEPT !.modules = first.c.modules]
                    /\ \A o \in DOMAIN modules : first.c.modules[o] = modules[o]

\* Witness of C14: addModule on Shared, which holds providers and exports
\* {X, A1}, is repeated with other exports lists; Consumer is not registered
\* yet.
C14_Witness ==
    /\ HasProvider(Container, "Shared", "X") /\ HasProvider(Container, "Shared", "P")
    /\ GetModuleExports(Container, "Shared") = {"X", "A1"}
    /\ AddModuleTo(Container, "Shared", {"P"}).out = False
    /\ ~HasModule(Container, "Consumer")

\* C16: addProvider on a module that is not in the registry throws
\* ModuleNotRegisteredError naming the module and leaves the container
\* unchanged; every registry entry, with its provider map, is one that
\* addModule created with the exports passed to it.
C16_ModuleNotRegistered ==
    /\ \A m \in ContainerModules : \A t \in ProviderTokens :
           ~HasModule(Container, m) =>
               AddProviderTo(Container, m, t, ProviderOf(m, t)) =
                   R(Container, Undefined, ModuleNotRegisteredError(ModuleName(m)))
    /\ \A m \in DOMAIN modules :
           /\ modules[m].exports \in ExportChoices(m)
           /\ DOMAIN modules[m].providers \subseteq MayProvide(m)

\* Witness of C16: Shared is registered and holds a provider while Consumer
\* is not registered, so addProvider on Consumer throws.
C16_Witness ==
    /\ HasProvider(Container, "Shared", "X")
    /\ ~HasModule(Container, "Consumer")
    /\ AddProviderTo(Container, "Consumer", "sX", ProviderOf("Consumer", "sX")).err
           = ModuleNotRegisteredError("Consumer")

\* No resolve call of m has stored anything in the resolution cache
NothingResolvedBy(m) ==
    \A key \in DOMAIN resolutionCache : key[1] # ModuleName(m)

\* C18: a module that has resolved nothing so far resolves some other token,
\* then registerInstance(t, v) is called; resolve(m, t) returns v without an
\* error and without calling any constructor or factory.  With t = m this is
\* resolve(M, M) after instantiateModule(M) has registered the instance.
C18_RegisteredInstance ==
    \A m \in ContainerModules : \A t \in RegisteredTokens : \A t0 \in SpecTokens \ {t} :
        NothingResolvedBy(m) =>
            LET v == Obj(<<"given", t>>, given + 1, <<>>)
                c1 == Resolve(Container, m, t0).c
                c2 == RegisterInstanceTo(c1, t, v)
                r == Resolve(c2, m, t)
            IN  /\ r.err = NoErr
                /\ r.out = v
                /\ r.c.calls = c2.calls

\* C19: a module that provides both the class X and a factory under the
\* string "X", with neither in the singleton cache and nothing resolved by
\* the module so far, gets from resolve(m, X) the instance of the class and
\* from the following resolve(m, "X") the value of the factory.
C19_CacheByIdentity ==
    \A m \in ContainerModules :
        (/\ HasProvider(Container, m, "X") /\ HasProvider(Container, m, "sX")
         /\ "X" \notin DOMAIN instances /\ "sX" \notin DOMAIN instances
         /\ NothingResolvedBy(m)) =>
            LET r1 == ResolveNow(m, "X")
                r2 == Resolve(r1.c, m, "sX")
            IN  /\ r1.err = NoErr /\ r2.err = NoErr
                /\ r1.out.by = ProviderOf(m, "X").id
                /\ r2.out.by = ProviderOf(m, "sX").id
                /\ r1.out # r2.out

----------------------------------------------------------------------------
(* Claims about initializeModule (checked under LazySpec).                 *)

\* The descriptor initializeModule is called with for m
DescriptorOf(m) == IF m = "Lazy" THEN lazy.class.metadata ELSE MetadataOf(m)

\* C15: a second initializeModule(m, descriptor) after a first one returns
\* at the isNewModule test without an error and leaves the container
\* (registry entries, provider maps, export sets, stored metadata) exactly as
\* the first call left it, also when the first call threw half way.
C15_InitializeTwice ==
    lazy.on =>
        \A m \in {"Lazy", "Shared"} :
            LET one == InitializeModule(Container, m, DescriptorOf(m))
                two == InitializeModule(one.c, m, DescriptorOf(m))
            IN  /\ two.c = one.c
                /\ two.err = NoErr
                /\ two.out = False
                /\ HasModule(Container, m) => one.c.modules = modules

\* Witness of C15: the lazy module's first initializeModule threw on the
\* invalid providers entry after registering X; the retry has called
\* initializeModule again and finished, and P is still not registered.
C15_Witness ==
    /\ lazy.on /\ Len(lazy.attempts) >= 2
    /\ lazy.attempts[1].thrown.name = "InvalidProviderError"
    /\ lazy.attempts[2].promise.state = "fulfilled"
    /\ HasProvider(Container, "Lazy", "X")
    /\ ~HasProvider(Container, "Lazy", "P")
    /\ moduleMetadata["Lazy"] = lazy.class.metadata

----------------------------------------------------------------------------
(* ImportSpec: the Container API called on a module with two imports that  *)
(* export the same token.                                                  *)

ImportModules == {"Shared", "Other", "Consumer"}

\* The exports lists addModule is called with
ImportExports(m) ==
    CASE m = "Shared" -> {{"sX", "P"}}
      [] m = "Other" -> {{"sX"}}
      [] OTHER -> {{}}

\* The tokens each module's descriptor may register: Shared and Other each
\* declare their own factory under the string "X", Shared declares P (which
\* injects X); Shared and Consumer may declare the class X.
ImportProvides(m) ==
    CASE m = "Shared" -> {"sX", "P", "X"}
      [] m = "Other" -> {"sX"}
      [] OTHER -> {"X"}

\* The imports lists setModuleMetadata(Consumer, ...) is called with
ImportLists == {<<"Shared", "Other">>, <<"Other", "Shared">>}

\* The tokens resolve is called with
ImportTokens == {"sX", "P", "X"}

ImportInit == Init

ImportNext ==
    \/ \E m \in ImportModules : \E e \in ImportExports(m) : AddModule(m, e)
    \/ \E i \in ImportLists : SetModuleMetadata("Consumer", i)
    \/ \E m \in ImportModules : \E t \in ImportProvides(m) : AddProvider(m, t)
    \/ \E m \in ImportModules : \E t \in ImportTokens : ResolveCall(m, t)

ImportSpec == ImportInit /\ [][ImportNext]_vars

\* The positions of Consumer's imports list whose module both exports and
\* provides t
Offering(t) ==
    {i \in DOMAIN Imports(Container, "Consumer") :
        ImportOffers(Container, Imports(Container, "Consumer")[i], t)}

FirstOffering(t) == CHOOSE i \in Offering(t) : \A j \in Offering(t) : i <= j

\* C17: when Consumer does not provide a token and several of its imports
\* export and provide it, resolve(Consumer, token) yields the value of the
\* provider of the first such import in list order and calls the factory of
\* no later import.
C17_FirstImportWins ==
    \A t \in ImportTokens :
        (~HasProvider(Container, "Consumer", t) /\ Cardinality(Offering(t)) >= 2) =>
            LET imports == Imports(Container, "Consumer")
                r == ResolveNow("Consumer", t)
            IN  /\ r.err = NoErr
                /\ r.out.by = ProviderOf(imports[FirstOffering(t)], t).id
                /\ \A j \in Offering(t) \ {FirstOffering(t)} :
                       r.c.calls[ProviderOf(imports[j], t).id] =
                           calls[ProviderOf(imports[j], t).id]

\* C17 amended: under the same condition, resolve(Consumer, token) returns
\* the resolution-cache entry under Consumer's key if there is one, else the
\* singleton-cache entry of the token if there is one, else the
\* resolution-cache entry under the key of the first such import if there is
\* one, in all three cases without calling any factory; otherwise it calls
\* the factory of the first such import once and no later import's.
C17_FirstImportWinsUncached ==
    \A t \in ImportTokens :
        (~HasProvider(Container, "Consumer", t) /\ Cardinality(Offering(t)) >= 2) =>
            LET imports == Imports(Container, "Consumer")
                r == ResolveNow("Consumer", t)
            IN  /\ r.err = NoErr
                /\ IF GetCacheKey("Consumer", t) \in DOMAIN resolutionCache
                   THEN r.out = resolutionCache[GetCacheKey("Consumer", t)]
                        /\ r.c.calls = calls
                   ELSE IF t \in DOMAIN instances
                   THEN r.out = instances[t] /\ r.c.calls = calls
                   ELSE IF GetCacheKey(imports[FirstOffering(t)], t) \in DOMAIN resolutionCache
                   THEN r.out = resolutionCache[GetCacheKey(imports[FirstOffering(t)], t)]
                        /\ r.c.calls = calls
                   ELSE /\ r.out.by = ProviderOf(imports[FirstOffering(t)], t).id
                        /\ r.c.calls[r.out.by] = calls[r.out.by] + 1
                        /\ \A j \in Offering(t) \ {FirstOffering(t)} :
                               r.c.calls[ProviderOf(imports[j], t).id] =
                                   calls[ProviderOf(imports[j], t).id]

\* Witness of C17: Consumer imports Other before Shared, both offer the
\* string token, no cache holds it, and Consumer has resolved P through its
\* second import already.
C17_Witness ==
    /\ Imports(Container, "Consumer") = <<"Other", "Shared">>
    /\ Offering("sX") = {1, 2}
    /\ "sX" \notin DOMAIN instances
    /\ GetCacheKey("Consumer", "sX") \notin DOMAIN resolutionCache
    /\ GetCacheKey("Other", "sX") \notin DOMAIN resolutionCache
    /\ GetCacheKey("Consumer", "P") \in DOMAIN resolutionCache
    /\ ResolveNow("Consumer", "sX").out.by = <<"Other", "sX">>

\* C20: when resolve(Consumer, P) instantiates P, provided and exported by
\* the import Shared, P's dependency X is the one visible from Consumer: the
\* call succeeds exactly when resolve(Consumer, X) does, and P is constructed
\* with that value.
C20_RequesterVisibility ==
    (/\ ~HasProvider(Container, "Consumer", "P")
     /\ Offering("P") # {}
     /\ "P" \notin DOMAIN instances) =>
        LET viaRequester == Resolve(Container, "Consumer", "X")
            r == ResolveNow("Consumer", "P")
        IN  /\ (r.err = NoErr) <=> (viaRequester.err = NoErr)
            /\ r.err = NoErr => r.out.args = <<viaRequester.out>>

----------------------------------------------------------------------------
(* TokensSpec: getDependencyTokens called on a class whose metadata the    *)
(* compiler and the @Inject decorators have written.                       *)

\* The container and the runtime parts of the other specifications
containerVars == <<modules, moduleMetadata, instances, resolutionCache, calls, given>>

\* The most constructor parameters of a class
MaxParams == 2

\* How often getDependencyTokens is called on the class
MaxTokenCalls == 2

\* An entry of design:paramtypes the compiler emitted as undefined, and the
\* entry Array.from produces where neither list has one
NoType == "undefined"

\* The entries of design:paramtypes: classes, or undefined
ParamTypes == {"A", "B", NoType}

\* The tokens given to @Inject
InjectTokens == {"T", "U"}

\* Lists of up to n entries drawn from S
ListsUpTo(S, n) == UNION {[1..k -> S] : k \in 0..n}

\* The metadata of a class: design:paramtypes, when the compiler emitted it,
\* and the record of the @Inject tokens, keyed by parameter index from 0
ClassMetadata ==
    {[hasParamTypes |-> h, paramTypes |-> p, injected |-> j] :
        h \in BOOLEAN, p \in ListsUpTo(ParamTypes, MaxParams),
        j \in UNION {[I -> InjectTokens] : I \in SUBSET (0..MaxParams)}}

\* Math.max of a non-empty set
MaxOf(S) == CHOOSE x \in S : \A y \in S : y <= x

\* A faulty getDependencyTokens that sizes the list by design:paramtypes
\* alone.
TokensOfParamTypesLength(meta) ==
    LET paramTypes == IF meta.hasParamTypes THEN meta.paramTypes ELSE <<>>
    IN  [i \in 1..Len(paramTypes) |->
            IF (i - 1) \in DOMAIN meta.injected THEN meta.injected[i - 1]
            ELSE paramTypes[i]]

\* getDependencyTokens past the cache test: the list built from the metadata
ComputeTokens(meta) ==
    LET paramTypes == IF meta.hasParamTypes THEN meta.paramTypes ELSE <<>>
        maxIndex == MaxOf({Len(paramTypes) - 1} \cup DOMAIN meta.injected \cup {-1})
    IN  IF maxIndex < 0 THEN paramTypes
        ELSE [i \in 1..(maxIndex + 1) |->
                 IF (i - 1) \in DOMAIN meta.injected THEN meta.injected[i - 1]
                 ELSE IF i <= Len(paramTypes) THEN paramTypes[i]
                 ELSE NoType]

TokensInit ==
    /\ InitContainer
    /\ lazy = NoLazy /\ boot = NoBoot
    /\ window = Off /\ flight = Off /\ race = Off /\ stack = Off
    /\ dependencyTokens \in
          {[on |-> TRUE, meta |-> meta, cached |-> FALSE, cache |-> <<>>,
            returned |-> <<>>] : meta \in ClassMetadata}
    /\ dependencyTokens.meta.hasParamTypes \/ dependencyTokens.meta.paramTypes = <<>>

\* getDependencyTokens(target) finds the list in dependencyTokensCache
GetCachedTokens ==
    /\ dependencyTokens.on /\ dependencyTokens.cached
    /\ Len(dependencyTokens.returned) < MaxTokenCalls
    /\ dependencyTokens' =
          [dependencyTokens EXCEPT !.returned = Append(@, dependencyTokens.cache)]
    /\ UNCHANGED <<containerVars, lazy, boot, stack, window, flight, race>>

\* getDependencyTokens(target) builds the list and stores it in the cache
GetDependencyTokens ==
    /\ dependencyTokens.on /\ ~dependencyTokens.cached
    /\ Len(dependencyTokens.returned) < MaxTokenCalls
    /\ dependencyTokens' =
          [dependencyTokens EXCEPT !.cached = TRUE,
                                   !.cache = ComputeTokens(dependencyTokens.meta),
                                   !.returned = Append(@, ComputeTokens(dependencyTokens.meta))]
    /\ UNCHANGED <<containerVars, lazy, boot, stack, window, flight, race>>

TokensNext == GetDependencyTokens \/ GetCachedTokens

TokensSpec == TokensInit /\ [][TokensNext]_vars

\* The larger of two numbers
Larger(a, b) == IF a >= b THEN a ELSE b

\* C27: every list getDependencyTokens returns has length
\* max(number of emitted parameter types, highest @Inject index + 1), the
\* emitted list counting as empty when the compiler emitted none; its entry
\* at index i is the @Inject token for i when there is one, otherwise the
\* emitted type at i, otherwise undefined; with neither metadata the list is
\* empty.
C27_DependencyTokens ==
    dependencyTokens.on =>
        \A k \in DOMAIN dependencyTokens.returned :
            LET list == dependencyTokens.returned[k]
                meta == dependencyTokens.meta
                emitted == IF meta.hasParamTypes THEN Len(meta.paramTypes) ELSE 0
                overrides == DOMAIN meta.injected
            IN  /\ Len(list) = IF overrides = {} THEN emitted
                               ELSE Larger(emitted, MaxOf(overrides) + 1)
                /\ \A i \in 0..(Len(list) - 1) :
                      list[i + 1] = IF i \in overrides THEN meta.injected[i]
                                    ELSE IF i < emitted THEN meta.paramTypes[i + 1]
                                    ELSE NoType
                /\ (~meta.hasParamTypes /\ overrides = {}) => list = <<>>

\* Witness of C27: one emitted type and an @Inject at index 2; both calls
\* returned the list of length 3 with a gap at index 1.
C27_Witness ==
    /\ dependencyTokens.on
    /\ dependencyTokens.meta.hasParamTypes
    /\ dependencyTokens.meta.paramTypes = <<"A">>
    /\ DOMAIN dependencyTokens.meta.injected = {2}
    /\ Len(dependencyTokens.returned) = 2
    /\ dependencyTokens.returned[1] = <<"A", NoType, dependencyTokens.meta.injected[2]>>
    /\ dependencyTokens.returned[2] = dependencyTokens.returned[1]

----------------------------------------------------------------------------
(* WindowSpec: attachWindowEventListeners called on one BrowserWindow with *)
(* several window-manager instances, and the window's closed event.        *)

\* The most calls of attachWindowEventListeners on the window
MaxAttach == 4

\* The window-manager instances
WindowManagers == {"main", "settings", "plain"}

\* getPrototypeMethodNames(inst): the method names on the prototype chain
PrototypeMethodNames(inst) ==
    CASE inst = "main" -> {"create", "onFocus", "onWebContentsDidFinishLoad", "onClosed"}
      [] inst = "settings" -> {"create", "onWindowFocus", "onMaximize"}
      [] OTHER -> {"create"}

\* n.startsWith("on")
StartsWithOn(n) == n # "create"

\* n.startsWith("onWebContents")
IsWebContents(n) == n = "onWebContentsDidFinishLoad"

\* toEventName: the prefix onWindow, onWebContents or on removed, the rest in
\* kebab case
ToEventName(h) ==
    CASE h = "onFocus" -> "focus"
      [] h = "onWindowFocus" -> "focus"
      [] h = "onWebContentsDidFinishLoad" -> "did-finish-load"
      [] h = "onClosed" -> "closed"
      [] h = "onMaximize" -> "maximize"
      [] OTHER -> h

\* The lifecycle handlers of an instance
Handlers(inst) == {n \in PrototypeMethodNames(inst) : StartsWithOn(n)}

\* No entry of windowListeners for the window
NoEntry == [defined |-> FALSE, instance |-> "none", cleanup |-> {}]

\* A faulty attach that leaves the previous entry's listeners in place.
PreviousKept(w) == w.listeners

\* entry.cleanup.forEach((c) => c()): every listener of the entry taken off
\* its emitter
PreviousRemoved(w) == w.listeners \ w.entry.cleanup

\* attachHandlersToEmitter for both emitters: one new listener closure per
\* handler, on the window or on its webContents
AttachHandlers(inst, call) ==
    {[emitter |-> IF IsWebContents(n) THEN "webContents" ELSE "win",
      evt |-> ToEventName(n), inst |-> inst, name |-> n, id |-> call] :
        n \in Handlers(inst)}

WindowInit ==
    /\ InitContainer
    /\ lazy = NoLazy /\ boot = NoBoot
    /\ dependencyTokens = Off /\ flight = Off /\ race = Off /\ stack = Off
    /\ window = [on |-> TRUE, listeners |-> {}, entry |-> NoEntry, once |-> 0,
                 closed |-> FALSE, attached |-> 0, last |-> "none", fired |-> {}]

\* attachWindowEventListeners(win, inst); a destroyed window has no
\* webContents to attach to
AttachWindowEventListeners(inst) ==
    /\ window.on /\ ~window.closed
    /\ window.attached < MaxAttach
    /\ window' =
          IF window.entry.defined /\ window.entry.instance = inst
          THEN [window EXCEPT !.attached = @ + 1, !.last = inst]
          ELSE LET new == AttachHandlers(inst, window.attached + 1)
               IN  [window EXCEPT !.listeners = PreviousRemoved(window) \cup new,
                                  !.entry = [defined |-> TRUE, instance |-> inst,
                                             cleanup |-> new],
                                  !.once = @ + 1,
                                  !.attached = @ + 1,
                                  !.last = inst]
    /\ UNCHANGED <<containerVars, lazy, boot, stack, dependencyTokens, flight, race>>

\* The events the window and its webContents emit while the window is open
WindowEvents == {<<"win", "focus">>, <<"win", "maximize">>,
                 <<"webContents", "did-finish-load">>}

\* The listeners an emitter calls for an event
ListenersOf(emitter, evt) ==
    {l \in window.listeners : l.emitter = emitter /\ l.evt = evt}

\* An emitter emits an event: every listener attached for it calls its
\* handler (lines 95-97)
Emit(emitter, evt) ==
    /\ window.on /\ ~window.closed
    /\ window' = [window EXCEPT !.fired = ListenersOf(emitter, evt)]
    /\ UNCHANGED <<containerVars, lazy, boot, stack, dependencyTokens, flight, race>>

\* The window emits closed: the handlers attached for closed are called, then
\* the listeners registered with once run, the first of them cleaning up and
\* deleting the entry
WindowClosed ==
    /\ window.on /\ ~window.closed
    /\ window' =
          IF window.once > 0 /\ window.entry.defined
          THEN [window EXCEPT !.listeners = PreviousRemoved(window),
                              !.entry = NoEntry, !.once = 0, !.closed = TRUE,
                              !.fired = ListenersOf("win", "closed")]
          ELSE [window EXCEPT !.once = 0, !.closed = TRUE,
                              !.fired = ListenersOf("win", "closed")]
    /\ UNCHANGED <<containerVars, lazy, boot, stack, dependencyTokens, flight, race>>

WindowNext ==
    \/ \E inst \in WindowManagers : AttachWindowEventListeners(inst)
    \/ \E e \in WindowEvents : Emit(e[1], e[2])
    \/ WindowClosed

WindowSpec == WindowInit /\ [][WindowNext]_vars

\* C28: while the window is open, every lifecycle handler of the most
\* recently attached instance has exactly one listener, on the emitter and
\* event its name stands for, and no listener belongs to another instance;
\* once the window has emitted closed, no listener is attached.
C28_WindowListeners ==
    window.on =>
        /\ (~window.closed /\ window.last # "none") =>
              /\ \A n \in Handlers(window.last) :
                    Cardinality({l \in window.listeners :
                                    /\ l.inst = window.last /\ l.name = n
                                    /\ l.evt = ToEventName(n)
                                    /\ l.emitter = IF IsWebContents(n) THEN "webContents"
                                                   ELSE "win"}) = 1
              /\ \A l \in window.listeners :
                    l.inst = window.last /\ l.name \in Handlers(window.last)
              /\ Cardinality(window.listeners) = Cardinality(Handlers(window.last))
        /\ window.closed => window.listeners = {}

\* Witness of C28: a first instance with handlers was attached, then another,
\* then that one again; the window carries the listeners of the second call.
C28_Witness ==
    /\ window.on /\ ~window.closed
    /\ window.attached = 3
    /\ window.last = "settings"
    /\ Cardinality(window.listeners) = 2
    /\ \A l \in window.listeners : l.id = 2 /\ l.inst = "settings"

\* Witness of C28 after closed: three attaches, then the closed event.
C28_WitnessClosed ==
    /\ window.on /\ window.closed
    /\ window.attached = 3
    /\ window.last = "main"
    /\ window.listeners = {}

----------------------------------------------------------------------------
(* FlightSpec: resolve calls of one module in flight at once.  Every call   *)
(* is a frame; it runs synchronously up to its first await, and its        *)
(* continuations run from the microtask queue in the order in which the    *)
(* promises they await settle.                                             *)

\* The most resolve calls made from outside the container
MaxCallers == 2

\* The providers of the module, all classes registered under themselves
FlightProviders == {"X", "A", "B", "D"}

\* getDependencyTokens of the classes: D depends on A and B, both on X
FlightInject(t) ==
    CASE t = "D" -> <<"A", "B">>
      [] t \in {"A", "B"} -> <<"X">>
      [] OTHER -> <<>>

\* No instance: a missing entry of a map, a pending result
None == [token |-> "none", n |-> 0]

\* The calls started by a frame that have not returned
Waiting(st, id) ==
    Cardinality({k \in DOMAIN st.frames :
                    st.frames[k].parent = id /\ st.frames[k].pc # "done"})

RECURSIVE StartResolve(_, _, _)
RECURSIVE StartDependencies(_, _, _, _)

\* resolve(moduleClass, token) up to its first await (lines 100-136, 242-251,
\* 257-264): the two cache tests, then the dependencies' resolve calls, each
\* run the same way, then the await of Promise.all
StartResolve(st, t, parent) ==
    LET id == Len(st.frames) + 1
        frame(pc, result) == [t |-> t, pc |-> pc, parent |-> parent, result |-> result]
    IN  IF st.resolutionCache[t] # None
        THEN [st EXCEPT !.frames = Append(@, frame("done", st.resolutionCache[t]))]
        ELSE IF st.instances[t] # None
        THEN [st EXCEPT !.frames = Append(@, frame("done", st.instances[t])),
                        !.resolutionCache[t] = st.instances[t]]
        ELSE LET opened == [st EXCEPT !.frames = Append(@, frame("deps", None))]
                 spawned == StartDependencies(opened, FlightInject(t), 1, id)
             IN  IF Waiting(spawned, id) = 0
                 THEN [spawned EXCEPT !.queue = Append(@, id)]
                 ELSE spawned

\* dependencies.map((dep) => this.resolve(moduleClass, dep)) from the i-th on
StartDependencies(st, deps, i, parent) ==
    IF i > Len(deps) THEN st
    ELSE StartDependencies(StartResolve(st, deps[i], parent), deps, i + 1, parent)

FlightInit ==
    /\ InitContainer
    /\ lazy = NoLazy /\ boot = NoBoot
    /\ dependencyTokens = Off /\ window = Off /\ race = Off /\ stack = Off
    /\ flight = [on |-> TRUE, frames |-> <<>>, queue |-> <<>>,
                 instances |-> [t \in FlightProviders |-> None],
                 resolutionCache |-> [t \in FlightProviders |-> None],
                 constructed |-> [t \in FlightProviders |-> 0],
                 callers |-> 0]

\* A caller outside the container calls resolve(moduleClass, t)
FlightCall(t) ==
    /\ flight.on
    /\ flight.callers < MaxCallers
    /\ flight' = [StartResolve(flight, t, 0) EXCEPT !.callers = @ + 1]
    /\ UNCHANGED <<containerVars, lazy, boot, stack, dependencyTokens, window, race>>

\* The frame at the head of the queue continues past the await of its
\* dependencies: new providerClass(...), instances.set(token, instance)
\* (lines 252-253)
FlightConstruct ==
    /\ flight.on /\ flight.queue # <<>>
    /\ flight.frames[Head(flight.queue)].pc = "deps"
    /\ LET id == Head(flight.queue)
           t == flight.frames[id].t
           instance == [token |-> t, n |-> flight.constructed[t] + 1]
       IN  flight' = [flight EXCEPT !.frames[id].pc = "cache",
                                    !.frames[id].result = instance,
                                    !.constructed[t] = @ + 1,
                                    !.instances[t] = instance,
                                    !.queue = Append(Tail(@), id)]
    /\ UNCHANGED <<containerVars, lazy, boot, stack, dependencyTokens, window, race>>

\* The frame at the head of the queue continues past the await of
\* instantiateProvider: resolutionCache.set(cacheKey, instance), return
\* (lines 142-146); the caller waiting for its last dependency is queued
FlightReturn ==
    /\ flight.on /\ flight.queue # <<>>
    /\ flight.frames[Head(flight.queue)].pc = "cache"
    /\ LET id == Head(flight.queue)
           f == flight.frames[id]
           returned == [flight EXCEPT !.frames[id].pc = "done",
                                      !.resolutionCache[f.t] = f.result,
                                      !.queue = Tail(@)]
       IN  flight' = IF f.parent # 0 /\ Waiting(returned, f.parent) = 0
                     THEN [returned EXCEPT !.queue = Append(@, f.parent)]
                     ELSE returned
    /\ UNCHANGED <<containerVars, lazy, boot, stack, dependencyTokens, window, race>>

FlightNext ==
    \/ \E t \in FlightProviders : FlightCall(t)
    \/ FlightConstruct
    \/ FlightReturn

FlightSpec == FlightInit /\ [][FlightNext]_vars

\* C29: however the resolve calls for a token overlap, the token's
\* constructor is invoked at most once and all calls that have returned
\* returned the identical instance.
C29_SingletonInFlight ==
    flight.on =>
        /\ \A t \in FlightProviders : flight.constructed[t] <= 1
        /\ \A j, k \in DOMAIN flight.frames :
              (/\ flight.frames[j].pc = "done" /\ flight.frames[k].pc = "done"
               /\ flight.frames[j].t = flight.frames[k].t)
                  => flight.frames[j].result = flight.frames[k].result

\* The diamond of C29 alone: one resolve call for D has returned and X was
\* constructed once.
C29_DiamondShared ==
    ~(/\ flight.on /\ flight.callers = 1
      /\ flight.frames # <<>> /\ flight.frames[1].t = "D" /\ flight.frames[1].pc = "done"
      /\ flight.constructed["X"] # 1)

----------------------------------------------------------------------------
(* RaceSpec: initializeModule calls that overlap.  No step of               *)
(* initializeModule waits for anything but promises of its own making, so  *)
(* a call is a frame that runs synchronously up to its first await and     *)
(* then continues, one await at a time, from the microtask queue.          *)

\* The most initializeModule calls made from outside
MaxStarts == 2

\* The module classes callers initialize: two modules importing Common, and
\* Common itself
RaceCallers == {"First", "Second", "Common"}

\* The descriptors Common may be declared with; importing First closes a
\* cycle of imports, and Common may import itself
CommonDescriptors ==
    {[providers |-> <<"X">>, imports |-> i, exports |-> {"X"}, windows |-> w, ipc |-> h] :
        i \in {<<>>, <<"Deep">>, <<"Deep", "Deep2">>, <<"First">>, <<"Common">>},
        w \in {<<>>, <<"win">>}, h \in {<<>>, <<"Ipc">>}}

\* Reflect.getMetadata("RgModule", m) of the module classes
RaceMetadataOf(m) ==
    CASE m \in {"First", "Second"} ->
            [providers |-> <<>>, imports |-> <<"Common">>, exports |-> {},
             windows |-> <<>>, ipc |-> <<>>]
      [] m = "Common" -> race.common
      [] OTHER ->
            [providers |-> <<"X">>, imports |-> <<>>, exports |-> {"X"},
             windows |-> <<>>, ipc |-> <<"Ipc2">>]

\* A faulty initializeModule whose first await is never resumed.
StartInitializeHung(st, c, m, parent) ==
    [st |-> [st EXCEPT !.frames = Append(@, [m |-> m, pc |-> "imports", i |-> 1,
                                             parent |-> parent, new |-> TRUE])],
     c |-> InitializeModuleSync(c, m, RaceMetadataOf(m)).c]

\* initializeModule(m, metadata) called by frame `parent` (0: from outside),
\* up to its first await: a module already added returns at once, a new one
\* has its providers registered and waits for the promise of
\* registerProviders
StartInitialize(st, c, m, parent) ==
    LET s == InitializeModuleSync(c, m, RaceMetadataOf(m))
        id == Len(st.frames) + 1
        frame(pc) == [m |-> m, pc |-> pc, i |-> 1, parent |-> parent, new |-> s.out = True]
    IN  IF s.out = False
        THEN [st |-> [st EXCEPT !.frames = Append(@, frame("done"))], c |-> s.c]
        ELSE [st |-> [st EXCEPT !.frames = Append(@, frame("imports")),
                                !.queue = Append(@, id)],
              c |-> s.c]

RaceInit ==
    /\ InitContainer
    /\ lazy = NoLazy /\ boot = NoBoot
    /\ dependencyTokens = Off /\ window = Off /\ flight = Off /\ stack = Off
    /\ race \in {[on |-> TRUE, common |-> d, frames |-> <<>>, queue |-> <<>>,
                  starts |-> 0] : d \in CommonDescriptors}

\* A caller outside calls initializeModule(m, metadata)
RaceStart(m) ==
    /\ race.on
    /\ race.starts < MaxStarts
    /\ LET s == StartInitialize(race, Container, m, 0)
       IN  /\ race' = [s.st EXCEPT !.starts = @ + 1]
           /\ SetContainer(s.c)
    /\ UNCHANGED <<given, lazy, boot, stack, dependencyTokens, window, flight>>

\* The head of the queue is in registerImports: past the last import it
\* returns, otherwise it calls initializeModule of the next import and awaits
\* it (register-imports.ts lines 4-21)
RaceImports ==
    /\ race.on /\ race.queue # <<>>
    /\ race.frames[Head(race.queue)].pc = "imports"
    /\ LET id == Head(race.queue)
           f == race.frames[id]
           imports == RaceMetadataOf(f.m).imports
           popped == [race EXCEPT !.queue = Tail(@)]
       IN  IF f.i > Len(imports)
           THEN /\ race' = [popped EXCEPT !.frames[id].pc = "windows",
                                          !.queue = Append(@, id)]
                /\ UNCHANGED <<modules, moduleMetadata, instances, resolutionCache, calls>>
           ELSE LET s == StartInitialize([popped EXCEPT !.frames[id].i = @ + 1],
                                         Container, imports[f.i], id)
                    child == s.st.frames[Len(s.st.frames)]
                IN  /\ race' = IF child.pc = "done"
                               THEN [s.st EXCEPT !.queue = Append(@, id)]
                               ELSE s.st
                    /\ SetContainer(s.c)
    /\ UNCHANGED <<given, lazy, boot, stack, dependencyTokens, window, flight>>

\* The head of the queue continues with registerWindows
RaceWindows ==
    /\ race.on /\ race.queue # <<>>
    /\ race.frames[Head(race.queue)].pc = "windows"
    /\ LET id == Head(race.queue)
           m == race.frames[id].m
       IN  /\ race' = [race EXCEPT !.frames[id].pc = "ipc",
                                   !.queue = Append(Tail(@), id)]
           /\ SetContainer(RegisterWindows(Container, m, RaceMetadataOf(m)).c)
    /\ UNCHANGED <<given, lazy, boot, stack, dependencyTokens, window, flight>>

\* The head of the queue continues with registerIpcHandlers
RaceIpcHandlers ==
    /\ race.on /\ race.queue # <<>>
    /\ race.frames[Head(race.queue)].pc = "ipc"
    /\ LET id == Head(race.queue)
           m == race.frames[id].m
       IN  /\ race' = [race EXCEPT !.frames[id].pc = "return",
                                   !.queue = Append(Tail(@), id)]
           /\ SetContainer(RegisterIpcHandlers(Container, m, RaceMetadataOf(m)).c)
    /\ UNCHANGED <<given, lazy, boot, stack, dependencyTokens, window, flight>>

\* The head of the queue returns from initializeModule; the registerImports
\* awaiting it goes on
RaceReturn ==
    /\ race.on /\ race.queue # <<>>
    /\ race.frames[Head(race.queue)].pc = "return"
    /\ LET id == Head(race.queue)
           parent == race.frames[id].parent
       IN  race' = [race EXCEPT !.frames[id].pc = "done",
                                !.queue = IF parent # 0 THEN Append(Tail(@), parent)
                                          ELSE Tail(@)]
    /\ UNCHANGED <<containerVars, lazy, boot, stack, dependencyTokens, window, flight>>

RaceNext ==
    \/ \E m \in RaceCallers : RaceStart(m)
    \/ RaceImports
    \/ RaceWindows
    \/ RaceIpcHandlers
    \/ RaceReturn

RaceSpec == RaceInit /\ [][RaceNext]_vars

\* The modules a module reaches through imports, itself included
RaceReach(m) ==
    LET one == {m} \cup {RaceMetadataOf(m).imports[i] : i \in DOMAIN RaceMetadataOf(m).imports}
    IN  one \cup UNION {{RaceMetadataOf(n).imports[i] : i \in DOMAIN RaceMetadataOf(n).imports} :
                           n \in one}

\* The module is added and its providers, windows and IPC handlers are
\* registered
RegisteredWhole(m) ==
    LET d == RaceMetadataOf(m)
    IN  /\ HasModule(Container, m)
        /\ \A i \in DOMAIN d.providers : HasProvider(Container, m, d.providers[i])
        /\ \A i \in DOMAIN d.windows : HasProvider(Container, m, d.windows[i])
        /\ \A i \in DOMAIN d.ipc : HasProvider(Container, m, d.ipc[i])

\* C30: once an initializeModule call made from outside has completed, every
\* module it reaches through imports is registered with its providers, its
\* windows and its IPC handlers, whatever other calls are in flight.
C30_ConcurrentRegistration ==
    race.on =>
        \A k \in DOMAIN race.frames :
            (race.frames[k].parent = 0 /\ race.frames[k].pc = "done")
                => \A m \in RaceReach(race.frames[k].m) : RegisteredWhole(m)

\* The same for a call that nothing overlaps: it is the only call made from
\* outside.
C30_AloneRegistered ==
    (race.on /\ race.starts = 1) =>
        \A k \in DOMAIN race.frames :
            (race.frames[k].parent = 0 /\ race.frames[k].pc = "done")
                => \A m \in RaceReach(race.frames[k].m) : RegisteredWhole(m)

\* One continuation from the microtask queue
RaceStep ==
    \/ RaceImports
    \/ RaceWindows
    \/ RaceIpcHandlers
    \/ RaceReturn

\* The microtask queue is always drained
RaceFairSpec == RaceSpec /\ WF_vars(RaceStep)

\* The frames of initializeModule(m) that went past the addModule guard
PipelinesOf(m) == {k \in DOMAIN race.frames : race.frames[k].m = m /\ race.frames[k].new}

\* C36: every initializeModule call terminates, also when the imports form
\* a cycle; the registration pipeline of a module runs at most once, every
\* other call for it returning at the addModule guard; and once the calls
\* have returned, every module reached through imports is registered with
\* its providers, windows and IPC handlers.
C36_InitializeTerminates ==
    /\ (race.on /\ race.queue # <<>>)
          ~> (race.on /\ \A k \in DOMAIN race.frames : race.frames[k].pc = "done")
    /\ [](race.on =>
            /\ \A k \in DOMAIN race.frames : Cardinality(PipelinesOf(race.frames[k].m)) = 1
            /\ (\A k \in DOMAIN race.frames : race.frames[k].pc = "done") =>
                  \A k \in DOMAIN race.frames :
                     \A m \in RaceReach(race.frames[k].m) : RegisteredWhole(m))

\* Witness of C36: Common imports First and First imports Common; the call
\* for First has returned after the nested call for First returned at the
\* guard, and both modules are registered.
C36_Witness ==
    /\ race.on /\ race.starts = 1
    /\ race.common.imports = <<"First">>
    /\ Len(race.frames) = 3
    /\ race.frames[1].m = "First" /\ race.frames[3].m = "First"
    /\ ~race.frames[3].new
    /\ \A k \in DOMAIN race.frames : race.frames[k].pc = "done"
    /\ RegisteredWhole("First") /\ RegisteredWhole("Common")

----------------------------------------------------------------------------
(* Further claims about the lazy gate (checked under LazySpec).            *)

\* The entries of a providers list that registerProviders accepts
ValidProviders(providers) ==
    {providers[i] : i \in {j \in DOMAIN providers : providers[j] # InvalidEntry}}

\* The registration pipeline has run for the lazy module: every declared
\* provider, import, window and IPC handler is in the container
PipelineRan ==
    LET d == lazy.class.metadata
    IN  /\ HasModule(Container, "Lazy")
        /\ \A t \in ValidProviders(d.providers) : HasProvider(Container, "Lazy", t)
        /\ \A i \in DOMAIN d.imports : HasModule(Container, d.imports[i])
        /\ \A i \in DOMAIN d.windows : HasProvider(Container, "Lazy", d.windows[i])
        /\ \A i \in DOMAIN d.ipc : HasProvider(Container, "Lazy", d.ipc[i])

\* C31: whatever attempts failed before, once an attempt has returned
\* initialized: true the registration pipeline has run for the module and
\* that attempt called onInit of every declared IPC handler.
C31_InitializedMeansRegistered ==
    lazy.on =>
        \A a \in Succeeded(lazy) :
            /\ PipelineRan
            /\ lazy.attempts[a].onInit = Len(lazy.class.metadata.ipc)

----------------------------------------------------------------------------
(* Claims about the two caches (checked under Spec).                       *)

\* The value was handed to registerInstance
Given(v) == v.by[1] = "given"

\* The resolution-cache entry under key agrees with the singleton entry for
\* t, or the latter was supplied through registerInstance
AgreesWith(key, t) ==
    /\ t \in DOMAIN instances
    /\ resolutionCache[key] = instances[t] \/ Given(instances[t])

\* C32: whenever the resolution cache holds an entry for (m, t) and the
\* singleton cache holds one for t, the two are the identical value; and
\* after registerInstance(t, v) a resolve(m, t) returns v for every module m.
C32_CacheCoherence ==
    \A m \in ContainerModules :
        /\ \A t \in Tokens :
              (GetCacheKey(m, t) \in DOMAIN resolutionCache /\ t \in DOMAIN instances)
                  => resolutionCache[GetCacheKey(m, t)] = instances[t]
        /\ \A t \in RegisteredTokens :
              LET v == Obj(<<"given", t>>, given + 1, <<>>)
                  r == Resolve(RegisterInstanceTo(Container, t, v), m, t)
              IN  r.err = NoErr /\ r.out = v

\* C32, amended: the two entries are the identical value unless the
\* singleton entry was supplied through registerInstance or the resolution
\* entry was cached under the same key text for another token; and after
\* registerInstance(t, v) a resolve(m, t) returns v when the resolution cache
\* has no entry under the key of (m, t) and that entry otherwise, in both
\* cases without calling a constructor or factory.
C32_CoherentUnlessReplaced ==
    \A m \in ContainerModules :
        /\ \A t \in Tokens :
              (GetCacheKey(m, t) \in DOMAIN resolutionCache /\ t \in DOMAIN instances)
                  => \/ AgreesWith(GetCacheKey(m, t), t)
                     \/ \E t2 \in Tokens \ {t} :
                           /\ TokenKey(t2) = TokenKey(t)
                           /\ AgreesWith(GetCacheKey(m, t), t2)
        /\ \A t \in RegisteredTokens :
              LET v == Obj(<<"given", t>>, given + 1, <<>>)
                  c2 == RegisterInstanceTo(Container, t, v)
                  r == Resolve(c2, m, t)
              IN  /\ r.err = NoErr
                  /\ r.c.calls = c2.calls
                  /\ r.out = IF GetCacheKey(m, t) \in DOMAIN resolutionCache
                             THEN resolutionCache[GetCacheKey(m, t)]
                             ELSE v

\* Witness of C32: Shared resolved the token "sX" through its factory, then
\* registerInstance stored another value under it, and Consumer, which had
\* not resolved it before, has resolved it to the registered value.
C32_Witness ==
    /\ "sX" \in DOMAIN instances /\ Given(instances["sX"])
    /\ GetCacheKey("Shared", "sX") \in DOMAIN resolutionCache
    /\ resolutionCache[GetCacheKey("Shared", "sX")].by = ProviderOf("Shared", "sX").id
    /\ GetCacheKey("Consumer", "sX") \in DOMAIN resolutionCache
    /\ resolutionCache[GetCacheKey("Consumer", "sX")] = instances["sX"]

\* Both modules have their own provider of t and nobody has resolved
\* anything yet or supplied a value for t
OwnProvidersUnresolved(t) ==
    /\ \A m \in ContainerModules : HasProvider(Container, m, t) /\ NothingResolvedBy(m)
    /\ t \notin DOMAIN instances

\* After `other` resolved t0, `first` resolves t, then `other`, then `first`
\* again: all three get the value of first's provider and other's provider
\* has not been invoked
FirstResolverWins(first, other, t, t0) ==
    LET c0 == Resolve(Container, other, t0).c
        r1 == Resolve(c0, first, t)
        r2 == Resolve(r1.c, other, t)
        r3 == Resolve(r2.c, first, t)
    IN  /\ r1.err = NoErr /\ r2.err = NoErr /\ r3.err = NoErr
        /\ r1.out.by = ProviderOf(first, t).id
        /\ r2.out = r1.out /\ r3.out = r1.out
        /\ r3.c.calls[ProviderOf(other, t).id] = calls[ProviderOf(other, t).id]
        /\ r3.c.calls[ProviderOf(first, t).id] = calls[ProviderOf(first, t).id] + 1

\* C33: when two modules each register their own provider under the token
\* "sX", the module that resolves it first determines the value, every later
\* resolve of the token from either module returns that value, and the other
\* module's provider is not instantiated, whatever other token was resolved
\* before.
C33_SingletonByToken ==
    OwnProvidersUnresolved("sX") =>
        \A first \in ContainerModules : \A other \in ContainerModules \ {first} :
            \A t0 \in SpecTokens \ {"sX"} : FirstResolverWins(first, other, "sX", t0)

\* The same when resolving the other token has left nothing under the cache
\* keys of "sX".
C33_SingletonByTokenDistinctKeys ==
    OwnProvidersUnresolved("sX") =>
        \A first \in ContainerModules : \A other \in ContainerModules \ {first} :
            \A t0 \in SpecTokens \ {"sX"} :
                (\A m \in ContainerModules :
                    GetCacheKey(m, "sX") \notin DOMAIN Resolve(Container, other, t0).c.resolutionCache)
                    => FirstResolverWins(first, other, "sX", t0)

----------------------------------------------------------------------------
(* StackSpec: resolve on provider graphs with and without cycles, one call  *)
(* from outside at a time.  A call runs synchronously up to its first      *)
(* await, and every nested resolve call is made in that synchronous part,  *)
(* one JavaScript stack frame deeper; what follows an await runs from the  *)
(* microtask queue.                                                        *)

\* The nesting of resolve calls the JavaScript call stack holds
MaxStack == 5

\* The most resolve calls made from outside
MaxStackCalls == 2

StackModules == {"Consumer", "Shared", "Other"}

\* The modules resolve is called on from outside
StackCallers == {"Consumer", "Shared"}
StackTokens == {"X", "P"}

\* The error the engine throws when the call stack is exhausted
RangeError == [name |-> "RangeError", token |-> <<>>, module |-> ""]

\* A class provider of module m under token t that injects deps
ClassOf(m, t, deps) ==
    [shape |-> "useClass", provide |-> t, inject |-> deps, useExisting |-> t,
     id |-> <<m, t>>]

\* An alias provider {provide: t, useExisting: u}
AliasOf(m, t, u) ==
    [shape |-> "existing", provide |-> t, inject |-> <<>>, useExisting |-> u,
     id |-> <<m, t>>]

\* The values other than objects: undefined is Undefined
Primitive(kind) == [kind |-> kind, by |-> <<"", "">>, n |-> 0, args |-> <<>>]
UseValues ==
    {Undefined, Primitive("null"), Primitive("0"), Primitive("empty string"),
     Primitive("false")}

\* A value provider {provide: t, useValue: v}
ValueOf(m, t, v) ==
    [shape |-> "useValue", provide |-> t, inject |-> <<>>, useExisting |-> t,
     id |-> <<m, t>>, useValue |-> v]

\* No provider registered under the token
Absent == [shape |-> "absent"]

\* The provider maps of the modules: Consumer provides and exports P and
\* imports Shared; Shared exports X, may provide X and P, and may import
\* Consumer or Other; Other provides and exports X
ConsumerProviders ==
    {ClassOf("Consumer", "P", d) : d \in {<<>>, <<"X">>, <<"P">>, <<"X", "P">>}}
        \cup {AliasOf("Consumer", "P", u) : u \in StackTokens}
SharedXProviders ==
    {Absent, ClassOf("Shared", "X", <<>>), ClassOf("Shared", "X", <<"P">>),
     AliasOf("Shared", "X", "P")}
        \cup {ValueOf("Shared", "X", v) : v \in UseValues}
SharedPProviders == {Absent, ClassOf("Shared", "P", <<>>)}

\* A map from the tokens whose provider is not Absent
ProviderMap(x, p) ==
    [t \in {u \in StackTokens : (IF u = "X" THEN x ELSE p) # Absent} |->
        IF t = "X" THEN x ELSE p]

\* A descriptor with the given imports
Importing(imports) ==
    [providers |-> <<>>, imports |-> imports, exports |-> {}, windows |-> <<>>,
     ipc |-> <<>>]

\* A frame of a resolve call
Frame(m, t, kind, parent, state, out, err) ==
    [m |-> m, t |-> t, kind |-> kind, parent |-> parent, state |-> state,
     out |-> out, err |-> err]

\* The calls a frame has made
KidsOf(st, id) == {k \in DOMAIN st.frames : st.frames[k].parent = id}

\* Promise.all of a frame's calls: the first rejected one decides, otherwise
\* it waits for all
FirstRejected(st, id) ==
    LET rejected == {k \in KidsOf(st, id) : st.frames[k].state = "rejected"}
    IN  IF rejected = {} THEN 0 ELSE CHOOSE k \in rejected : \A j \in rejected : k <= j

\* A faulty await that is never resumed.
NeverSettled(st, id) == FALSE

\* The promise a frame awaits has settled
Settled(st, id) ==
    \/ FirstRejected(st, id) # 0
    \/ \A k \in KidsOf(st, id) : st.frames[k].state = "done"

\* The frame's continuation is queued once the promise it awaits settles
Wake(st, id) ==
    IF id = 0 \/ st.frames[id].state # "pending" \/ st.frames[id].err # NoErr
          \/ (\E i \in DOMAIN st.queue : st.queue[i] = id)
          \/ ~Settled(st, id)
    THEN st
    ELSE IF FirstRejected(st, id) # 0
    THEN [st EXCEPT !.frames[id].err = st.frames[FirstRejected(st, id)].err,
                    !.queue = Append(@, id)]
    ELSE [st EXCEPT !.queue = Append(@, id)]

\* A faulty engine with an unbounded stack answer: the call beyond the stack
\* returns undefined.
OverflowIgnored(m, t, parent) == Frame(m, t, "hit", parent, "done", Undefined, NoErr)

\* The call that does not fit on the stack: its promise is rejected with the
\* engine's RangeError
Overflow(m, t, parent) == Frame(m, t, "overflow", parent, "rejected", Undefined, RangeError)

\* The index of the first import of m that exports and provides t, or 0
FirstOffer(c, m, t) ==
    LET offering == {i \in DOMAIN Imports(c, m) : ImportOffers(c, Imports(c, m)[i], t)}
    IN  IF offering = {} THEN 0 ELSE CHOOSE i \in offering : \A j \in offering : i <= j

RECURSIVE StartCall(_, _, _, _, _, _)
RECURSIVE StartCalls(_, _, _, _, _, _, _)

\* resolve(m, t) called at the given stack depth, up to its first await: the
\* two cache tests, then the value stored for a value provider, or the calls
\* for the dependencies, the alias target or the offering import (part_024
\* lines 100-136, 149-172, 187-193, 242-264)
StartCall(st, c, m, t, parent, depth) ==
    LET id == Len(st.frames) + 1
        open(kind, state, out) ==
            [st EXCEPT !.frames = Append(@, Frame(m, t, kind, parent, state, out, NoErr))]
        key == GetCacheKey(m, t)
    IN  IF depth > MaxStack
        THEN [st |-> [st EXCEPT !.frames = Append(@, Overflow(m, t, parent))], c |-> c]
        ELSE IF key \in DOMAIN c.resolutionCache
        THEN [st |-> open("hit", "done", c.resolutionCache[key]), c |-> c]
        ELSE IF t \in DOMAIN c.instances
        THEN [st |-> open("hit", "done", c.instances[t]),
              c |-> [c EXCEPT !.resolutionCache = Put(@, key, c.instances[t])]]
        ELSE LET called ==
                     IF HasProvider(c, m, t)
                     THEN IF GetProvider(c, m, t).shape = "useValue"
                          THEN [st |-> open("value", "pending", Undefined),
                                c |-> [c EXCEPT !.instances =
                                          Put(@, t, GetProvider(c, m, t).useValue)]]
                          ELSE IF GetProvider(c, m, t).shape = "existing"
                          THEN StartCall(open("alias", "pending", Undefined), c, m,
                                         GetProvider(c, m, t).useExisting, id, depth + 1)
                          ELSE StartCalls(open("deps", "pending", Undefined), c, m,
                                          GetProvider(c, m, t).inject, 1, id, depth + 1)
                     ELSE IF FirstOffer(c, m, t) # 0
                          THEN StartCall(open("import", "pending", Undefined), c,
                                         Imports(c, m)[FirstOffer(c, m, t)], t, id, depth + 1)
                          ELSE [st |-> open("none", "pending", Undefined), c |-> c]
             IN  [st |-> Wake(called.st, id), c |-> called.c]

\* dependencies.map((dep) => this.resolve(moduleClass, dep)) from the i-th on
StartCalls(st, c, m, deps, i, parent, depth) ==
    IF i > Len(deps) THEN [st |-> st, c |-> c]
    ELSE LET s == StartCall(st, c, m, deps[i], parent, depth)
         IN  StartCalls(s.st, s.c, m, deps, i + 1, parent, depth)

\* The values a frame's calls returned, in call order
ArgsOf(st, id) ==
    LET ks == KidsOf(st, id)
    IN  [i \in 1..Cardinality(ks) |->
            st.frames[CHOOSE k \in ks : Cardinality({j \in ks : j < k}) = i - 1].out]

StackNodes == StackModules \X StackTokens

\* resolve(n) calls resolve(b) in container c: n is in neither cache, and b
\* is a dependency or the alias target of n's provider, or n's token in the
\* first import that offers it
CallsNode(c, n, b) ==
    /\ GetCacheKey(n[1], n[2]) \notin DOMAIN c.resolutionCache
    /\ n[2] \notin DOMAIN c.instances
    /\ IF HasProvider(c, n[1], n[2])
       THEN LET p == GetProvider(c, n[1], n[2])
            IN  /\ b[1] = n[1]
                /\ IF p.shape = "existing" THEN b[2] = p.useExisting
                   ELSE \E i \in DOMAIN p.inject : p.inject[i] = b[2]
       ELSE /\ FirstOffer(c, n[1], n[2]) # 0
            /\ b = <<Imports(c, n[1])[FirstOffer(c, n[1], n[2])], n[2]>>

RECURSIVE CalledFrom(_, _)

\* The nodes resolve reaches from the nodes S
CalledFrom(c, S) ==
    LET more == S \cup {b \in StackNodes : \E n \in S : CallsNode(c, n, b)}
    IN  IF more = S THEN S ELSE CalledFrom(c, more)

\* The nodes on a cycle that resolve(m, t) reaches in container c
Loops(c, m, t) ==
    {n \in CalledFrom(c, {<<m, t>>}) :
        n \in CalledFrom(c, {b \in StackNodes : CallsNode(c, n, b)})}

StackInit ==
    /\ \E p \in ConsumerProviders : \E x \in SharedXProviders : \E sp \in SharedPProviders :
       \E back \in {<<>>, <<"Consumer">>, <<"Other">>} :
          /\ modules = [m \in StackModules |->
                          CASE m = "Consumer" ->
                                  [providers |-> ProviderMap(Absent, p), exports |-> {"P"}]
                            [] m = "Shared" ->
                                  [providers |-> ProviderMap(x, sp), exports |-> {"X"}]
                            [] OTHER ->
                                  [providers |-> ProviderMap(ClassOf("Other", "X", <<>>), Absent),
                                   exports |-> {"X"}]]
          /\ moduleMetadata = [m \in StackModules |->
                                  CASE m = "Consumer" -> Importing(<<"Shared">>)
                                    [] m = "Shared" -> Importing(back)
                                    [] OTHER -> Importing(<<>>)]
    /\ instances = EmptyMap
    /\ resolutionCache = EmptyMap
    /\ calls = [id \in ProviderIds |-> 0]
    /\ given = 0
    /\ lazy = NoLazy /\ boot = NoBoot
    /\ dependencyTokens = Off /\ window = Off /\ flight = Off /\ race = Off
    /\ stack = [on |-> TRUE, frames |-> <<>>, queue |-> <<>>, made |-> 0, loops |-> {}]

\* A caller outside calls resolve(m, t) while no call is in flight
StackCall(m, t) ==
    /\ stack.on /\ stack.queue = <<>>
    /\ stack.made < MaxStackCalls
    /\ LET s == StartCall([stack EXCEPT !.frames = <<>>], Container, m, t, 0, 1)
       IN  /\ stack' = [s.st EXCEPT !.made = @ + 1, !.loops = Loops(Container, m, t)]
           /\ SetContainer(s.c)
    /\ UNCHANGED <<given, lazy, boot, dependencyTokens, window, flight, race>>

\* The frame at the head of the queue, of the given kind and with or without
\* a rejected call
Head1(kind, failed) ==
    /\ stack.on /\ stack.queue # <<>>
    /\ stack.frames[Head(stack.queue)].kind = kind
    /\ (stack.frames[Head(stack.queue)].err # NoErr) = failed

\* The frame at the head of the queue settles as given and the frame that
\* called it is woken
Settle(c, state, out, err) ==
    LET id == Head(stack.queue)
        st == [stack EXCEPT !.queue = Tail(@),
                            !.frames[id].state = state,
                            !.frames[id].out = out,
                            !.frames[id].err = err]
    IN  /\ stack' = Wake(st, stack.frames[id].parent)
        /\ SetContainer(c)
        /\ UNCHANGED <<given, lazy, boot, dependencyTokens, window, flight, race>>

\* A call of the frame was rejected: the await throws and the frame rejects
\* with the same error
StackReject ==
    /\ stack.on /\ stack.queue # <<>>
    /\ stack.frames[Head(stack.queue)].err # NoErr
    /\ Settle(Container, "rejected", Undefined, stack.frames[Head(stack.queue)].err)

\* All dependencies are resolved: the constructor is called, the instance is
\* stored in both caches and returned (lines 233-240, 142-146)
StackConstruct ==
    /\ Head1("deps", FALSE)
    /\ LET id == Head(stack.queue)
           f == stack.frames[id]
           r == CacheDefined(Construct(Container, f.t, GetProvider(Container, f.m, f.t).id,
                                       ArgsOf(stack, id)),
                             GetCacheKey(f.m, f.t))
       IN  Settle(r.c, "done", r.out, NoErr)

\* The value of a value provider is returned and, unless it is undefined,
\* stored in the resolution cache (lines 187-190, 142-146)
StackValued ==
    /\ Head1("value", FALSE)
    /\ LET f == stack.frames[Head(stack.queue)]
           v == GetProvider(Container, f.m, f.t).useValue
       IN  Settle(IF v # Undefined
                  THEN [Container EXCEPT !.resolutionCache = Put(@, GetCacheKey(f.m, f.t), v)]
                  ELSE Container,
                  "done", v, NoErr)

\* The alias target is resolved: a defined value is stored under the alias
\* in both caches and returned (lines 192-198, 142-146)
StackAliased ==
    /\ Head1("alias", FALSE)
    /\ LET id == Head(stack.queue)
           f == stack.frames[id]
           v == ArgsOf(stack, id)[1]
           c1 == IF v # Undefined
                 THEN [Container EXCEPT !.instances = Put(@, f.t, v),
                                        !.resolutionCache = Put(@, GetCacheKey(f.m, f.t), v)]
                 ELSE Container
       IN  Settle(c1, "done", v, NoErr)

\* The import has resolved the token: a defined value is stored in the
\* resolution cache and returned (lines 119-127)
StackImported ==
    /\ Head1("import", FALSE)
    /\ LET id == Head(stack.queue)
           f == stack.frames[id]
           v == ArgsOf(stack, id)[1]
       IN  IF v # Undefined
           THEN Settle([Container EXCEPT !.resolutionCache = Put(@, GetCacheKey(f.m, f.t), v)],
                       "done", v, NoErr)
           ELSE IF f.t # f.m
           THEN Settle(Container, "rejected", Undefined,
                       ProviderNotFoundError(TokenString(f.t), ModuleName(f.m)))
           ELSE Settle(Container, "done", Undefined, NoErr)

\* No provider and no import offers the token (lines 129-133)
StackNotFound ==
    /\ Head1("none", FALSE)
    /\ LET f == stack.frames[Head(stack.queue)]
       IN  IF f.t # f.m
           THEN Settle(Container, "rejected", Undefined,
                       ProviderNotFoundError(TokenString(f.t), ModuleName(f.m)))
           ELSE Settle(Container, "done", Undefined, NoErr)

\* One continuation from the microtask queue
StackStep ==
    \/ StackReject
    \/ StackConstruct
    \/ StackValued
    \/ StackAliased
    \/ StackImported
    \/ StackNotFound

StackNext ==
    \/ \E m \in StackCallers : \E t \in StackTokens \cup {m} : StackCall(m, t)
    \/ StackStep

StackSpec == StackInit /\ [][StackNext]_vars

\* The microtask queue is always drained
StackFairSpec == StackSpec /\ WF_vars(StackStep)

----------------------------------------------------------------------------
(* Claims about resolve on provider graphs (checked under StackSpec and    *)
(* StackFairSpec).                                                         *)

\* The call made from outside
Outer == stack.frames[1]

\* Nothing is stored in the resolution cache for a node on a cycle the
\* current call reaches
NothingCachedOnLoops ==
    \A n \in stack.loops : GetCacheKey(n[1], n[2]) \notin DOMAIN resolutionCache

AcyclicPending ==
    stack.on /\ stack.frames # <<>> /\ stack.loops = {} /\ Outer.state = "pending"

\* The current call has yielded a value or undefined, or has rejected with
\* ProviderNotFoundError
Completed ==
    /\ stack.on /\ stack.frames # <<>>
    /\ \/ Outer.state = "done"
       \/ Outer.state = "rejected" /\ Outer.err.name = "ProviderNotFoundError"

\* C35: a resolve call that reaches no cycle of dependencies, aliases and
\* import fallbacks eventually completes: it yields a value or undefined, or
\* rejects with ProviderNotFoundError; it never exhausts the call stack.
C35_AcyclicTerminates ==
    /\ AcyclicPending ~> Completed
    /\ []((stack.on /\ stack.frames # <<>> /\ stack.loops = {}) =>
            /\ \A k \in DOMAIN stack.frames : stack.frames[k].kind # "overflow"
            /\ Outer.state = "rejected" => Outer.err.name = "ProviderNotFoundError")

\* Witness of C35: resolve(Consumer, P) went through a dependency that came
\* from the import Shared, where it has a dependency of its own, and the
\* call has yielded the constructed instance.
C35_Witness ==
    /\ stack.on /\ Len(stack.frames) = 4
    /\ stack.loops = {}
    /\ Outer.m = "Consumer" /\ Outer.t = "P"
    /\ stack.frames[2].kind = "import" /\ stack.frames[3].kind = "deps"
    /\ Outer.state = "done" /\ Outer.out # Undefined
    /\ Outer.out = resolutionCache[GetCacheKey("Consumer", "P")]

\* A second witness of C35: the call has rejected with ProviderNotFoundError
\* for a dependency that no module offers.
C35_WitnessNotFound ==
    /\ stack.on /\ Len(stack.frames) >= 2
    /\ stack.loops = {}
    /\ Outer.state = "rejected" /\ Outer.err.name = "ProviderNotFoundError"

\* A third witness of C35: resolve(m, m) for a module class without a
\* provider of its own yields undefined.
C35_WitnessUndefined ==
    /\ stack.on /\ stack.frames # <<>>
    /\ Outer.t = Outer.m
    /\ Outer.state = "done" /\ Outer.out = Undefined


----------------------------------------------------------------------------
(* Further claims about bootstrapModules (checked under BootSpec).         *)

\* The modules with a descriptor that the imports list of m names
ImportedBy(m) ==
    IF ~HasDescriptor(m) THEN {}
    ELSE {MetadataOf(m).imports[i] : i \in DOMAIN MetadataOf(m).imports}
            \cap {n \in Modules : HasDescriptor(n)}

\* The modules initializeModule(m) registers: m and what it reaches through
\* imports
BootReach(m) == {m} \cup ImportedBy(m) \cup UNION {ImportedBy(n) : n \in ImportedBy(m)}

\* The module is added with the providers, windows and IPC handler classes
\* of its descriptor
BootRegistered(m) ==
    LET d == MetadataOf(m)
    IN  /\ HasModule(Container, m)
        /\ m \in DOMAIN moduleMetadata
        /\ \A i \in DOMAIN d.providers : HasProvider(Container, m, d.providers[i])
        /\ \A i \in DOMAIN d.windows : HasProvider(Container, m, d.windows[i])
        /\ \A i \in DOMAIN d.ipc : HasProvider(Container, m, d.ipc[i])

\* The loop body has run for the module: it is registered, its class was
\* constructed once and the instance stored, and onInit of each of its IPC
\* handlers was called
BootCompleted(m) ==
    /\ BootRegistered(m)
    /\ calls[<<"class", m>>] = 1
    /\ m \in DOMAIN instances
    /\ \A i \in DOMAIN MetadataOf(m).ipc :
          \E j \in DOMAIN boot.log : boot.log[j] = <<"onInit", m, MetadataOf(m).ipc[i]>>

\* The loop has started nothing for the module: it was not constructed, no
\* step ran for it and it has no trigger handler
BootNotStarted(m) ==
    /\ calls[<<"class", m>>] = 0
    /\ m \notin DOMAIN instances
    /\ \A j \in DOMAIN boot.log : boot.log[j][2] # m
    /\ \A h \in boot.handlers : h.module # m

\* C37: when bootstrapModules has rejected at list position k, every module
\* before k is registered and instantiated with its IPC handlers
\* initialized, and no module after k is registered, instantiated or given
\* a trigger handler.
C37_NoRollbackNothingLater ==
    (boot.on /\ boot.pc = "failed") =>
        /\ \A j \in 1..(boot.k - 1) : BootCompleted(boot.list[j])
        /\ \A j \in (boot.k + 1)..Len(boot.list) :
              /\ BootNotStarted(boot.list[j])
              /\ ~HasModule(Container, boot.list[j])

\* C37, amended: the same, except that a module after k is registered when
\* a module up to k reaches it through imports; it is registered for no
\* other reason.
C37_NoRollbackNothingLaterButImports ==
    (boot.on /\ boot.pc = "failed") =>
        /\ \A j \in 1..(boot.k - 1) : BootCompleted(boot.list[j])
        /\ \A j \in (boot.k + 1)..Len(boot.list) :
              /\ BootNotStarted(boot.list[j])
              /\ HasModule(Container, boot.list[j]) =>
                    \E i \in 1..boot.k : boot.list[j] \in BootReach(boot.list[i])
              /\ (\E i \in 1..(boot.k - 1) : boot.list[j] \in BootReach(boot.list[i])) =>
                    BootRegistered(boot.list[j])

\* Witness of C37: bootstrapModules([Consumer, Undecorated, Shared]) has
\* rejected at its second module; Consumer is bootstrapped in full, and
\* Shared, which Consumer imports, is registered and not constructed.
C37_Witness ==
    /\ boot.on /\ boot.pc = "failed" /\ boot.k = 2
    /\ boot.list = <<"Consumer", "Undecorated", "Shared">>
    /\ BootCompleted("Consumer")
    /\ BootRegistered("Shared")
    /\ BootNotStarted("Shared")

\* A second witness of C37: the rejection comes at the first module and the
\* later ones are not registered.
C37_WitnessUntouched ==
    /\ boot.on /\ boot.pc = "failed" /\ boot.k = 1 /\ Len(boot.list) = 3
    /\ \A j \in 2..3 : ~HasModule(Container, boot.list[j]) /\ BootNotStarted(boot.list[j])


\* The module is in the list passed to bootstrapModules
Listed(m) == \E j \in DOMAIN boot.list : boot.list[j] = m

\* A module of the list up to the current position imports m
ImportedEarlier(m, k) ==
    \E i \in 1..(k - 1) : boot.list[i] # m /\ m \in BootReach(boot.list[i])

\* The loop has called instantiateModule(m)
InstantiateCalled(m) ==
    \E j \in DOMAIN boot.log : boot.log[j] = <<"instantiateModule", m, "">>

C38_WitnessListed ==
    /\ boot.on /\ boot.pc = "done" /\ boot.list = <<"Consumer", "Shared">>
    /\ calls[<<"class", "Shared">>] = 1
    /\ boot.log[1] = <<"initializeModule", "Consumer", "">>
    /\ BootCompleted("Shared")


----------------------------------------------------------------------------
(* Import visibility (checked under StackSpec).                            *)

\* The call made from outside is for a token its module has no provider for
OuterUnprovided ==
    /\ stack.on /\ stack.frames # <<>>
    /\ Outer.t # Outer.m
    /\ ~HasProvider(Container, Outer.m, Outer.t)

\* A module listed in m's imports exports t and provides t itself
OfferedDirectly(m, t) ==
    \E i \in DOMAIN Imports(Container, m) : ImportOffers(Container, Imports(Container, m)[i], t)

\* C39: resolve(C, t) for a token C has no provider for yields a value only
\* from a module listed directly in C's imports that exports t and provides
\* t itself; when no direct import does, the call fails with
\* ProviderNotFoundError, also when a direct import lists t in its exports
\* and the provider lives in that import's own import.
C39_OneLevel ==
    (OuterUnprovided /\ ~OfferedDirectly(Outer.m, Outer.t)) =>
        /\ Outer.state # "done"
        /\ Outer.state = "rejected" =>
              Outer.err = ProviderNotFoundError(TokenString(Outer.t), ModuleName(Outer.m))

\* The same for a call that finds no entry for the token in the singleton
\* cache or the resolution cache.
C39_OneLevelUncached ==
    (OuterUnprovided /\ Outer.kind # "hit") =>
        /\ Outer.state = "done" =>
              /\ OfferedDirectly(Outer.m, Outer.t)
              /\ Outer.out = stack.frames[2].out
              /\ stack.frames[2].m = Imports(Container, Outer.m)[FirstOffer(Container, Outer.m, Outer.t)]
        /\ ~OfferedDirectly(Outer.m, Outer.t) =>
              /\ Outer.state # "done"
              /\ Outer.state = "rejected" =>
                    Outer.err = ProviderNotFoundError(TokenString(Outer.t), ModuleName(Outer.m))

\* Shared exports X without providing it and imports Other, which provides
\* and exports X; resolve(Consumer, X) has failed.
C39_TransitiveFails ==
    /\ stack.on /\ stack.frames # <<>>
    /\ Outer.m = "Consumer" /\ Outer.t = "X" /\ Outer.kind = "none"
    /\ Imports(Container, "Shared") = <<"Other">>
    /\ ~HasProvider(Container, "Shared", "X")
    /\ Outer.state = "rejected"
    /\ Outer.err = ProviderNotFoundError(TokenString("X"), ModuleName("Consumer"))


----------------------------------------------------------------------------
(* Value providers (checked under StackSpec).                              *)

\* Shared provides X with a value provider, and the call made from outside
\* for X, on Shared or on Consumer that imports it, has completed
ValueResolved ==
    /\ stack.on /\ stack.frames # <<>>
    /\ HasProvider(Container, "Shared", "X")
    /\ GetProvider(Container, "Shared", "X").shape = "useValue"
    /\ Outer.t = "X"
    /\ Outer.state # "pending"

\* C40: a value provider resolves to exactly its useValue, without a call
\* of any constructor or factory, whatever the value, null, undefined, 0,
\* the empty string and false included: every resolve from the providing
\* module returns it, and so does every resolve from a module that imports
\* the providing module, instead of failing.
C40_ValueProvider ==
    ValueResolved =>
        /\ Outer.state = "done"
        /\ Outer.out = GetProvider(Container, "Shared", "X").useValue
        /\ calls[<<"Shared", "X">>] = 0 /\ calls[<<"class", "X">>] = 0

\* The same for every value but undefined, and for undefined when the
\* providing module resolves or when the singleton cache already holds the
\* token.
C40_ValueProviderDefined ==
    (/\ ValueResolved
     /\ \/ GetProvider(Container, "Shared", "X").useValue # Undefined
        \/ Outer.m = "Shared"
        \/ Outer.kind = "hit") =>
        /\ Outer.state = "done"
        /\ Outer.out = GetProvider(Container, "Shared", "X").useValue
        /\ calls[<<"Shared", "X">>] = 0 /\ calls[<<"class", "X">>] = 0

\* resolve(Consumer, X) has returned null, the useValue of the provider of
\* Shared, through the import.
C40_NullImported ==
    /\ ValueResolved
    /\ Outer.m = "Consumer" /\ Outer.kind = "import"
    /\ Outer.state = "done" /\ Outer.out = Primitive("null")
    /\ resolutionCache[GetCacheKey("Consumer", "X")] = Primitive("null")

\* resolve(Consumer, X) has failed although Shared provides and exports X
\* with the value undefined.
C40_UndefinedFails ==
    /\ ValueResolved
    /\ Outer.m = "Consumer" /\ Outer.kind = "import"
    /\ GetProvider(Container, "Shared", "X").useValue = Undefined
    /\ Outer.state = "rejected"
    /\ Outer.err = ProviderNotFoundError(TokenString("X"), ModuleName("Consumer"))

====
